---------------------------- MODULE Spec2Model ----------------------------
(***************************************************************************)
(* QueryCraft: natural-language question -> SQL -> safety validation ->    *)
(* execution -> query history.  The model follows app/models/              *)
(* sql_generator.py, app/database/connection.py and app/main.py.           *)
(*                                                                         *)
(* Texts (requests, generated text, SQL) are sequences of one-character    *)
(* strings, so that the string and regular-expression operations of the    *)
(* source are computed character by character.                             *)
(***************************************************************************)
EXTENDS Integers, Sequences, FiniteSets, TLC

VARIABLES
    ENABLE_SAFETY_CHECKS,  \* settings.ENABLE_SAFETY_CHECKS
    model,                 \* SQLGenerator.model: "loaded" or "None"
    tables,                \* names of the tables present in the database
    employees,             \* rows of table employees
    query_history,         \* rows of table query_history, in rowid order
    sqlite_sequence,       \* AUTOINCREMENT high-water mark of query_history
    pc,                    \* position of the session inside process_query
    user_query,            \* process_query: user_query
    sql_query,             \* process_query: sql_query
    error,                 \* process_query: error
    result,                \* process_query: result
    execution_error,       \* process_query: execution_error
    history_id,            \* process_query: history_id
    last_result,           \* st.session_state.last_result
    shown,                 \* what the last sidebar/handler call returned
    cycle,                 \* number of process_query calls started
    log,                   \* calls made by the current cycle, in order
    written,               \* <<cycle, id>> of every row save_query_history stored
    candidate,             \* the text a function of the source is applied to
    verdict,               \* what _validate_sql_safety returned for candidate
    calls,                 \* history calls made one after another, with what
                           \* they were given and what they returned
    schema_manager,        \* NLToSQLApp.schema_manager: "none", "constructing",
                           \* "ready", or "halted" after st.stop()
    available_tables,      \* SchemaManager.tables
    schema,                \* SchemaManager.schema
    info_cache,            \* what SchemaManager.inspector has read and keeps
    refreshing,            \* the running _refresh_schema call: its position,
                           \* the store it began on, the sample reads that failed
    refreshes,             \* presses of the "Refresh Schema" button
    published,             \* what the _refresh_schema calls that returned built
    observed,              \* what the last reader of the schema manager got
    conn,                  \* execute_query: the connection of the with block
    trans,                 \* execute_query: the transaction of conn.begin()
    toggle_calls,          \* two toggle_favorite calls running side by side
    write_lock,            \* the call that holds the write lock of the database
    last_applied           \* <<the flag the last committed UPDATE of a call wrote>>

vars == <<ENABLE_SAFETY_CHECKS, model, tables, employees, query_history,
          sqlite_sequence, pc, user_query, sql_query, error, result,
          execution_error, history_id, last_result, shown, cycle, log,
          written, candidate, verdict, calls, schema_manager, available_tables,
          schema, info_cache, refreshing, refreshes, published, observed, conn,
          trans, toggle_calls, write_lock, last_applied>>

\* Python's None
None == "None"

----------------------------------------------------------------------------
(* Characters and the str methods the source uses *)

Lowers == <<"a","b","c","d","e","f","g","h","i","j","k","l","m","n","o","p","q","r","s","t","u","v","w","x","y","z">>
Uppers == <<"A","B","C","D","E","F","G","H","I","J","K","L","M","N","O","P","Q","R","S","T","U","V","W","X","Y","Z">>
Digits == {"0","1","2","3","4","5","6","7","8","9"}

Range(s) == {s[i] : i \in 1..Len(s)}

UpperOf == [c \in Range(Lowers) |-> Uppers[CHOOSE i \in 1..Len(Lowers) : Lowers[i] = c]]
LowerOf == [c \in Range(Uppers) |-> Lowers[CHOOSE i \in 1..Len(Uppers) : Uppers[i] = c]]
WordChars == Range(Lowers) \cup Range(Uppers) \cup Digits \cup {"_"}

Min(S) == CHOOSE x \in S : \A y \in S : x <= y
Max(S) == CHOOSE x \in S : \A y \in S : x >= y

\* str.upper() and str.lower() of one character
upperChar(c) == IF c \in DOMAIN UpperOf THEN UpperOf[c] ELSE c
lowerChar(c) == IF c \in DOMAIN LowerOf THEN LowerOf[c] ELSE c

\* str.upper(), str.lower()
upper(s) == <<>> \o [i \in 1..Len(s) |-> upperChar(s[i])]
lower(s) == <<>> \o [i \in 1..Len(s) |-> lowerChar(s[i])]

\* str.title() of a single lower-case word, as _extract_department uses it
title(s) == <<>> \o [i \in 1..Len(s) |-> IF i = 1 THEN upperChar(s[i]) ELSE lowerChar(s[i])]

\* \w of the re module
IsWordChar(c) == c \in WordChars

\* the whitespace of str.strip() and str.split()
IsSpace(c) == c \in {" ", "\n", "\t"}

\* s[i:i+len(p)] == p   (positions from 1)
StartsAt(s, i, p) ==
    /\ i >= 1
    /\ i + Len(p) - 1 <= Len(s)
    /\ \A k \in 1..Len(p) : s[i + k - 1] = p[k]

Occurrences(s, p) == {i \in 1..(Len(s) + 1) : StartsAt(s, i, p)}

\* p in s
Contains(s, p) == Occurrences(s, p) # {}

\* s.find(p), from 1; 0 when absent
find(s, p) == IF Contains(s, p) THEN Min(Occurrences(s, p)) ELSE 0

\* s.rfind(p), from 1; 0 when absent
rfind(s, p) == IF Contains(s, p) THEN Max(Occurrences(s, p)) ELSE 0

\* s[i:]  (positions from 1)
From(s, i) == SubSeq(s, i, Len(s))

lstrip(s) ==
    LET keep == {i \in 1..Len(s) : ~IsSpace(s[i])}
    IN  IF keep = {} THEN <<>> ELSE From(s, Min(keep))

rstrip(s) ==
    LET keep == {i \in 1..Len(s) : ~IsSpace(s[i])}
    IN  IF keep = {} THEN <<>> ELSE SubSeq(s, 1, Max(keep))

\* str.strip()
strip(s) == rstrip(lstrip(s))

\* s.endswith(p)
endswith(s, p) == Len(p) <= Len(s) /\ StartsAt(s, Len(s) - Len(p) + 1, p)

\* s.split()[0] for a text that is not all whitespace
FirstToken(s) ==
    LET t == lstrip(s)
        stops == {i \in 1..Len(t) : IsSpace(t[i])}
    IN  IF stops = {} THEN t ELSE SubSeq(t, 1, Min(stops) - 1)

----------------------------------------------------------------------------
(* SQLGenerator: the safety patterns and _validate_sql_safety *)

Keywords == <<<<"D","R","O","P">>, <<"D","E","L","E","T","E">>, <<"U","P","D","A","T","E">>, <<"I","N","S","E","R","T">>, <<"A","L","T","E","R">>, <<"T","R","U","N","C","A","T","E">>,
              <<"C","R","E","A","T","E">>, <<"E","X","E","C">>>>

\* the regular expressions of self.dangerous_patterns
KeywordPattern == "\\b(DROP|DELETE|UPDATE|INSERT|ALTER|TRUNCATE|CREATE|EXEC)\\b"
StackedPattern == ";.*;"
LineCommentPattern == "--"
BlockCommentPattern == "/\\*.*\\*/"

\* the list with the comment patterns in front
dangerous_patterns_CommentsFirst ==
    <<LineCommentPattern, BlockCommentPattern, StackedPattern, KeywordPattern>>

\* self.dangerous_patterns, in the order of the list
dangerous_patterns ==
    <<KeywordPattern, StackedPattern, LineCommentPattern, BlockCommentPattern>>

\* re.IGNORECASE comparison of two characters
SameCharIgnoreCase(a, b) == upperChar(a) = upperChar(b)

\* the alternative kw matched without the word boundaries around it
KeywordAt_Substring(s, i, kw) ==
    /\ i + Len(kw) - 1 <= Len(s)
    /\ \A k \in 1..Len(kw) : SameCharIgnoreCase(s[i + k - 1], kw[k])

\* the alternative kw of pattern 1 matches at position i: \bkw\b
KeywordAt(s, i, kw) ==
    /\ i + Len(kw) - 1 <= Len(s)
    /\ \A k \in 1..Len(kw) : SameCharIgnoreCase(s[i + k - 1], kw[k])
    /\ (i = 1 \/ ~IsWordChar(s[i - 1]))
    /\ (i + Len(kw) - 1 = Len(s) \/ ~IsWordChar(s[i + Len(kw)]))

\* "." of the re module without DOTALL: anything but a newline
NoNewline(s, from, to) == \A k \in from..to : s[k] # "\n"

\* re.search(pattern, s, re.IGNORECASE) for the four patterns of the list
re_search(pattern, s) ==
    CASE pattern = KeywordPattern ->
            \E n \in 1..Len(Keywords) : \E i \in 1..Len(s) : KeywordAt(s, i, Keywords[n])
      [] pattern = StackedPattern ->
            \E i \in 1..Len(s) : \E j \in (i + 1)..Len(s) :
                s[i] = ";" /\ s[j] = ";" /\ NoNewline(s, i + 1, j - 1)
      [] pattern = LineCommentPattern ->
            Contains(s, <<"-","-">>)
      [] pattern = BlockCommentPattern ->
            \E i \in Occurrences(s, <<"/","*">>) : \E j \in Occurrences(s, <<"*","/">>) :
                j >= i + 2 /\ NoNewline(s, i + 2, j - 1)

\* the patterns of the list that match the upper-cased query
MatchingPatterns(sql) ==
    LET sql_upper == upper(sql)
    IN  {n \in 1..Len(dangerous_patterns) : re_search(dangerous_patterns[n], sql_upper)}

\* _validate_sql_safety: (is_safe, message)
_validate_sql_safety(sql) ==
    IF ~ENABLE_SAFETY_CHECKS
    THEN <<TRUE, "Safety checks disabled">>
    ELSE IF MatchingPatterns(sql) # {}
         THEN <<FALSE, "Dangerous SQL pattern detected: "
                        \o dangerous_patterns[Min(MatchingPatterns(sql))]>>
         ELSE <<TRUE, "Query is safe">>

----------------------------------------------------------------------------
(* SQLGenerator: prompt, extraction and the rule-based translator *)

\* a text variable holding Python's None
NoText == <<None>>

\* create_enhanced_prompt: the f-string ends with the question and the
\* "SQL QUERY:" label; the instructions, schema context and examples before
\* the question are fixed text placed in front of it
create_enhanced_prompt(natural_language_query) ==
    <<"\n","Q","U","E","S","T","I","O","N",":"," ">> \o natural_language_query \o <<"\n","\n","S","Q","L"," ","Q","U","E","R","Y",":","\n">>

SQL_QUERY_LABEL == <<"S","Q","L"," ","Q","U","E","R","Y",":">>

\* sql_markers, in the order of the list
sql_markers == <<SQL_QUERY_LABEL, <<"S","E","L","E","C","T">>, <<"W","I","T","H">>>>

DefaultQuery == <<"S","E","L","E","C","T"," ","*"," ","F","R","O","M"," ","e","m","p","l","o","y","e","e","s"," ","L","I","M","I","T"," ","1","0",";">>

\* a split at the statement terminator only: re.split(r';', s)[0]
BeforeTerminator_SemicolonOnly(s) ==
    LET stops == {i \in 1..Len(s) : s[i] = ";"}
    IN  IF stops = {} THEN s ELSE SubSeq(s, 1, Min(stops) - 1)

\* re.split(r'[;\n]', s)[0]
BeforeTerminator(s) ==
    LET stops == {i \in 1..Len(s) : s[i] \in {";", "\n"}}
    IN  IF stops = {} THEN s ELSE SubSeq(s, 1, Min(stops) - 1)

\* an extraction that starts at the marker occurring first in the text
_extract_sql_EarliestMarker(generated_text) ==
    LET found == {n \in 1..Len(sql_markers) : Contains(generated_text, sql_markers[n])}
    IN  IF found = {}
        THEN DefaultQuery
        ELSE LET first == Min({find(generated_text, sql_markers[n]) : n \in found})
                 marker == sql_markers[CHOOSE n \in found :
                                          find(generated_text, sql_markers[n]) = first]
                 sql_part ==
                     IF marker = SQL_QUERY_LABEL
                     THEN strip(From(generated_text, first + Len(marker)))
                     ELSE From(generated_text, first)
                 cleaned == strip(BeforeTerminator(sql_part))
             IN  IF endswith(cleaned, <<";">>) THEN cleaned ELSE cleaned \o <<";">>

\* _extract_sql
_extract_sql(generated_text) ==
    LET found == {n \in 1..Len(sql_markers) : Contains(generated_text, sql_markers[n])}
    IN  IF found = {}
        THEN DefaultQuery
        ELSE LET marker == sql_markers[Min(found)]
                 sql_part ==
                     IF marker = SQL_QUERY_LABEL
                     THEN strip(From(generated_text,
                                     rfind(generated_text, marker) + Len(marker)))
                     ELSE From(generated_text, find(generated_text, marker))
                 cleaned == strip(BeforeTerminator(sql_part))
             IN  IF endswith(cleaned, <<";">>) THEN cleaned ELSE cleaned \o <<";">>

\* the vocabulary with the sales department in front
departments_SalesFirst == <<<<"s","a","l","e","s">>, <<"i","t">>, <<"m","a","r","k","e","t","i","n","g">>, <<"f","i","n","a","n","c","e">>, <<"h","r">>>>

\* _extract_department
departments == <<<<"i","t">>, <<"m","a","r","k","e","t","i","n","g">>, <<"s","a","l","e","s">>, <<"f","i","n","a","n","c","e">>, <<"h","r">>>>

_extract_department(query) ==
    LET found == {n \in 1..Len(departments) : Contains(query, departments[n])}
    IN  IF found = {} THEN <<>> ELSE title(departments[Min(found)])

\* a translator that looks for highest/top before count and department
_rule_based_sql_TopFirst(query) ==
    LET query_lower == lower(query)
        has(w) == Contains(query_lower, w)
    IN  IF has(<<"h","i","g","h","e","s","t">>) \/ has(<<"t","o","p">>)
        THEN <<"S","E","L","E","C","T"," ","*"," ","F","R","O","M"," ","e","m","p","l","o","y","e","e","s"," ","O","R","D","E","R"," ","B","Y"," ","s","a","l","a","r","y"," ","D","E","S","C"," ","L","I","M","I","T"," ","5",";">>
        ELSE IF has(<<"c","o","u","n","t">>) /\ has(<<"d","e","p","a","r","t","m","e","n","t">>)
        THEN <<"S","E","L","E","C","T"," ","d","e","p","a","r","t","m","e","n","t",","," ","C","O","U","N","T","(","*",")"," ","a","s"," ","e","m","p","l","o","y","e","e","_","c","o","u","n","t"," ","F","R","O","M"," ","e","m","p","l","o","y","e","e","s"," ","G","R","O","U","P"," ","B","Y"," ","d","e","p","a","r","t","m","e","n","t",";">>
        ELSE <<"S","E","L","E","C","T"," ","*"," ","F","R","O","M"," ","e","m","p","l","o","y","e","e","s"," ","L","I","M","I","T"," ","1","0",";">>

\* a translator whose default query is followed by a comment
_rule_based_sql_Commented(query) ==
    LET query_lower == lower(query)
        has(w) == Contains(query_lower, w)
    IN  IF has(<<"c","o","u","n","t">>) /\ has(<<"d","e","p","a","r","t","m","e","n","t">>)
        THEN <<"S","E","L","E","C","T"," ","d","e","p","a","r","t","m","e","n","t",","," ","C","O","U","N","T","(","*",")"," ","a","s"," ","e","m","p","l","o","y","e","e","_","c","o","u","n","t"," ","F","R","O","M"," ","e","m","p","l","o","y","e","e","s"," ","G","R","O","U","P"," ","B","Y"," ","d","e","p","a","r","t","m","e","n","t",";">>
        ELSE IF has(<<"a","v","e","r","a","g","e">>) /\ has(<<"s","a","l","a","r","y">>)
        THEN IF has(<<"d","e","p","a","r","t","m","e","n","t">>)
             THEN <<"S","E","L","E","C","T"," ","d","e","p","a","r","t","m","e","n","t",","," ","A","V","G","(","s","a","l","a","r","y",")"," ","a","s"," ","a","v","g","_","s","a","l","a","r","y"," ","F","R","O","M"," ","e","m","p","l","o","y","e","e","s"," ","G","R","O","U","P"," ","B","Y"," ","d","e","p","a","r","t","m","e","n","t",";">>
             ELSE <<"S","E","L","E","C","T"," ","A","V","G","(","s","a","l","a","r","y",")"," ","a","s"," ","a","v","e","r","a","g","e","_","s","a","l","a","r","y"," ","F","R","O","M"," ","e","m","p","l","o","y","e","e","s",";">>
        ELSE IF has(<<"h","i","g","h","e","s","t">>) \/ has(<<"t","o","p">>)
        THEN <<"S","E","L","E","C","T"," ","*"," ","F","R","O","M"," ","e","m","p","l","o","y","e","e","s"," ","O","R","D","E","R"," ","B","Y"," ","s","a","l","a","r","y"," ","D","E","S","C"," ","L","I","M","I","T"," ","5",";">>
        ELSE IF has(<<"l","o","w","e","s","t">>)
        THEN <<"S","E","L","E","C","T"," ","*"," ","F","R","O","M"," ","e","m","p","l","o","y","e","e","s"," ","O","R","D","E","R"," ","B","Y"," ","s","a","l","a","r","y"," ","A","S","C"," ","L","I","M","I","T"," ","5",";">>
        ELSE IF has(<<"d","e","p","a","r","t","m","e","n","t">>)
        THEN IF _extract_department(query_lower) # <<>>
             THEN <<"S","E","L","E","C","T"," ","*"," ","F","R","O","M"," ","e","m","p","l","o","y","e","e","s"," ","W","H","E","R","E"," ","d","e","p","a","r","t","m","e","n","t"," ","="," ","'">>
                  \o _extract_department(query_lower) \o <<"'",";">>
             ELSE <<"S","E","L","E","C","T"," ","D","I","S","T","I","N","C","T"," ","d","e","p","a","r","t","m","e","n","t"," ","F","R","O","M"," ","e","m","p","l","o","y","e","e","s",";">>
        ELSE IF has(<<"c","i","t","y">>) \/ has(<<"l","o","c","a","t","i","o","n">>)
        THEN <<"S","E","L","E","C","T"," ","D","I","S","T","I","N","C","T"," ","r","e","s","i","d","e","n","c","e","_","c","i","t","y"," ","F","R","O","M"," ","e","m","p","l","o","y","e","e","s"," ","L","I","M","I","T"," ","1","0",";">>
        ELSE <<"S","E","L","E","C","T"," ","*"," ","F","R","O","M"," ","e","m","p","l","o","y","e","e","s"," ","L","I","M","I","T"," ","1","0",";"," ","-","-"," ","d","e","f","a","u","l","t">>

\* _rule_based_sql
_rule_based_sql(query) ==
    LET query_lower == lower(query)
        has(w) == Contains(query_lower, w)
    IN  IF has(<<"c","o","u","n","t">>) /\ has(<<"d","e","p","a","r","t","m","e","n","t">>)
        THEN <<"S","E","L","E","C","T"," ","d","e","p","a","r","t","m","e","n","t",","," ","C","O","U","N","T","(","*",")"," ","a","s"," ","e","m","p","l","o","y","e","e","_","c","o","u","n","t"," ","F","R","O","M"," ","e","m","p","l","o","y","e","e","s"," ","G","R","O","U","P"," ","B","Y"," ","d","e","p","a","r","t","m","e","n","t",";">>
        ELSE IF has(<<"a","v","e","r","a","g","e">>) /\ has(<<"s","a","l","a","r","y">>)
        THEN IF has(<<"d","e","p","a","r","t","m","e","n","t">>)
             THEN <<"S","E","L","E","C","T"," ","d","e","p","a","r","t","m","e","n","t",","," ","A","V","G","(","s","a","l","a","r","y",")"," ","a","s"," ","a","v","g","_","s","a","l","a","r","y"," ","F","R","O","M"," ","e","m","p","l","o","y","e","e","s"," ","G","R","O","U","P"," ","B","Y"," ","d","e","p","a","r","t","m","e","n","t",";">>
             ELSE <<"S","E","L","E","C","T"," ","A","V","G","(","s","a","l","a","r","y",")"," ","a","s"," ","a","v","e","r","a","g","e","_","s","a","l","a","r","y"," ","F","R","O","M"," ","e","m","p","l","o","y","e","e","s",";">>
        ELSE IF has(<<"h","i","g","h","e","s","t">>) \/ has(<<"t","o","p">>)
        THEN <<"S","E","L","E","C","T"," ","*"," ","F","R","O","M"," ","e","m","p","l","o","y","e","e","s"," ","O","R","D","E","R"," ","B","Y"," ","s","a","l","a","r","y"," ","D","E","S","C"," ","L","I","M","I","T"," ","5",";">>
        ELSE IF has(<<"l","o","w","e","s","t">>)
        THEN <<"S","E","L","E","C","T"," ","*"," ","F","R","O","M"," ","e","m","p","l","o","y","e","e","s"," ","O","R","D","E","R"," ","B","Y"," ","s","a","l","a","r","y"," ","A","S","C"," ","L","I","M","I","T"," ","5",";">>
        ELSE IF has(<<"d","e","p","a","r","t","m","e","n","t">>)
        THEN IF _extract_department(query_lower) # <<>>
             THEN <<"S","E","L","E","C","T"," ","*"," ","F","R","O","M"," ","e","m","p","l","o","y","e","e","s"," ","W","H","E","R","E"," ","d","e","p","a","r","t","m","e","n","t"," ","="," ","'">>
                  \o _extract_department(query_lower) \o <<"'",";">>
             ELSE <<"S","E","L","E","C","T"," ","D","I","S","T","I","N","C","T"," ","d","e","p","a","r","t","m","e","n","t"," ","F","R","O","M"," ","e","m","p","l","o","y","e","e","s",";">>
        ELSE IF has(<<"c","i","t","y">>) \/ has(<<"l","o","c","a","t","i","o","n">>)
        THEN <<"S","E","L","E","C","T"," ","D","I","S","T","I","N","C","T"," ","r","e","s","i","d","e","n","c","e","_","c","i","t","y"," ","F","R","O","M"," ","e","m","p","l","o","y","e","e","s"," ","L","I","M","I","T"," ","1","0",";">>
        ELSE <<"S","E","L","E","C","T"," ","*"," ","F","R","O","M"," ","e","m","p","l","o","y","e","e","s"," ","L","I","M","I","T"," ","1","0",";">>

----------------------------------------------------------------------------
(* The database behind settings.DATABASE_URL (data/sample_database.db) *)

\* the first rows DataLoader._insert_sample_data loads (employee_id, first_name)
SeedEmployees ==
    << [employee_id |-> 1, first_name |-> "Jessika"],
       [employee_id |-> 2, first_name |-> "Donni"] >>

\* a pandas DataFrame, and None in its place
DataFrame(rows) == [kind |-> "DataFrame", rows |-> rows]
NoResult == [kind |-> None, rows |-> <<>>]

\* DataFrame.to_json(orient='records'): the text of a JSON list of the rows
to_json(df) == <<"[">> \o df.rows \o <<"]">>

\* the leading SQL keyword of a statement, as the SQLite tokenizer reads it
SqlKeyword(sql) ==
    LET t == lstrip(sql)
        stops == {i \in 1..Len(t) : ~IsWordChar(t[i])}
    IN  upper(IF stops = {} THEN t ELSE SubSeq(t, 1, Min(stops) - 1))

\* the table a statement names
SqlTable(sql) ==
    IF Contains(lower(sql), <<"q","u","e","r","y","_","h","i","s","t","o","r","y">>) THEN "query_history"
    ELSE IF Contains(lower(sql), <<"e","m","p","l","o","y","e","e","s">>) THEN "employees"
    ELSE None

\* a statement without the white space and the one terminator after it
Statement(sql) ==
    LET t == rstrip(sql)
    IN  IF endswith(t, <<";">>) THEN rstrip(SubSeq(t, 1, Len(t) - 1)) ELSE t

\* statements SQLite runs whenever their table exists
RunnableStatements ==
    { <<"S","E","L","E","C","T"," ","d","e","p","a","r","t","m","e","n","t",","," ","C","O","U","N","T","(","*",")"," ","a","s"," ","e","m","p","l","o","y","e","e","_","c","o","u","n","t"," ","F","R","O","M"," ","e","m","p","l","o","y","e","e","s"," ","G","R","O","U","P"," ","B","Y"," ","d","e","p","a","r","t","m","e","n","t">>,
      <<"S","E","L","E","C","T"," ","d","e","p","a","r","t","m","e","n","t",","," ","A","V","G","(","s","a","l","a","r","y",")"," ","a","s"," ","a","v","g","_","s","a","l","a","r","y"," ","F","R","O","M"," ","e","m","p","l","o","y","e","e","s"," ","G","R","O","U","P"," ","B","Y"," ","d","e","p","a","r","t","m","e","n","t">>,
      <<"S","E","L","E","C","T"," ","A","V","G","(","s","a","l","a","r","y",")"," ","a","s"," ","a","v","e","r","a","g","e","_","s","a","l","a","r","y"," ","F","R","O","M"," ","e","m","p","l","o","y","e","e","s">>,
      <<"S","E","L","E","C","T"," ","*"," ","F","R","O","M"," ","e","m","p","l","o","y","e","e","s"," ","O","R","D","E","R"," ","B","Y"," ","s","a","l","a","r","y"," ","D","E","S","C"," ","L","I","M","I","T"," ","5">>,
      <<"S","E","L","E","C","T"," ","*"," ","F","R","O","M"," ","e","m","p","l","o","y","e","e","s"," ","O","R","D","E","R"," ","B","Y"," ","s","a","l","a","r","y"," ","A","S","C"," ","L","I","M","I","T"," ","5">>,
      <<"S","E","L","E","C","T"," ","D","I","S","T","I","N","C","T"," ","d","e","p","a","r","t","m","e","n","t"," ","F","R","O","M"," ","e","m","p","l","o","y","e","e","s">>,
      <<"S","E","L","E","C","T"," ","D","I","S","T","I","N","C","T"," ","r","e","s","i","d","e","n","c","e","_","c","i","t","y"," ","F","R","O","M"," ","e","m","p","l","o","y","e","e","s"," ","L","I","M","I","T"," ","1","0">>,
      <<"S","E","L","E","C","T"," ","*"," ","F","R","O","M"," ","e","m","p","l","o","y","e","e","s"," ","L","I","M","I","T"," ","1","0">>,
      <<"S","E","L","E","C","T"," ","*"," ","F","R","O","M"," ","e","m","p","l","o","y","e","e","s">>,
      <<"S","E","L","E","C","T","*"," ","F","R","O","M"," ","e","m","p","l","o","y","e","e","s">>,
      <<"D","R","O","P"," ","T","A","B","L","E"," ","e","m","p","l","o","y","e","e","s">>,
      <<"R","E","P","L","A","C","E"," ","I","N","T","O"," ","e","m","p","l","o","y","e","e","s"," ","(","e","m","p","l","o","y","e","e","_","i","d",","," ","f","i","r","s","t","_","n","a","m","e",","," ","l","a","s","t","_","n","a","m","e",")"," ","V","A","L","U","E","S"," ","(","1",","," ","'","x","'",","," ","'","y","'",")">>,
      <<"R","E","P","L","A","C","E"," ","I","N","T","O"," ","q","u","e","r","y","_","h","i","s","t","o","r","y"," ","V","A","L","U","E","S"," ","(","1",","," ","0",","," ","'","x","'",","," ","'","x","'",","," ","'","'",","," ","'","'",","," ","1",")">> }
    \cup { <<"S","E","L","E","C","T"," ","*"," ","F","R","O","M"," ","e","m","p","l","o","y","e","e","s"," ","W","H","E","R","E"," ","d","e","p","a","r","t","m","e","n","t"," ","="," ","'">> \o title(departments[n]) \o <<"'">> :
             n \in 1..Len(departments) }

\* what SQLite can do with a statement, TRUE for running it and FALSE for
\* raising: a statement of RunnableStatements runs if its table exists, and of
\* any other text the model leaves open whether SQLite accepts it
SqlOutcomes(sql) ==
    IF Statement(sql) \in RunnableStatements
    THEN {SqlTable(sql) \in tables}
    ELSE BOOLEAN

\* str(e) of what the driver raises for a statement that cannot run
SqlError(sql) ==
    IF SqlTable(sql) # None /\ SqlTable(sql) \notin tables
    THEN "no such table: " \o SqlTable(sql)
    ELSE "syntax error"

\* str(e) of a fault of the store that is not the statement's (locked, I/O)
StoreFault == "database is locked"

\* the rows a row-returning statement reads
SqlRows(sql) ==
    IF SqlTable(sql) = "employees" THEN employees ELSE query_history

\* the rows REPLACE statements of the generated texts write
ReplacedEmployee == [employee_id |-> 1, first_name |-> "x"]
ReplacedHistory ==
    [id |-> 1, timestamp |-> 0, user_query |-> <<"x">>, sql_query |-> <<"x">>,
     result |-> <<>>, error |-> "", favorite |-> 1]

\* INSERT OR REPLACE of row r into rows, by the key column
ReplaceRow(rows, key, r) ==
    IF \E i \in 1..Len(rows) : rows[i][key] = r[key]
    THEN [i \in 1..Len(rows) |-> IF rows[i][key] = r[key] THEN r ELSE rows[i]]
    ELSE LET before == SelectSeq(rows, LAMBDA x : x[key] < r[key])
             after  == SelectSeq(rows, LAMBDA x : x[key] > r[key])
         IN  before \o <<r>> \o after

\* a committed statement's effect on the database
SqlCommit(sql) ==
    LET kw == SqlKeyword(sql)
        tb == SqlTable(sql)
    IN  /\ tables' = IF kw = <<"D","R","O","P">> THEN tables \ {tb} ELSE tables
        /\ employees' =
             IF tb # "employees" THEN employees
             ELSE IF kw \in {<<"D","R","O","P">>, <<"D","E","L","E","T","E">>} THEN <<>>
             ELSE IF kw = <<"R","E","P","L","A","C","E">>
                  THEN ReplaceRow(employees, "employee_id", ReplacedEmployee)
             ELSE employees
        /\ query_history' =
             IF tb # "query_history" THEN query_history
             ELSE IF kw \in {<<"D","R","O","P">>, <<"D","E","L","E","T","E">>} THEN <<>>
             ELSE IF kw = <<"R","E","P","L","A","C","E">>
                  THEN ReplaceRow(query_history, "id", ReplacedHistory)
             ELSE query_history
        /\ sqlite_sequence' =
             IF tb # "query_history" THEN sqlite_sequence
             ELSE IF kw = <<"D","R","O","P">> THEN 0
             ELSE IF kw = <<"R","E","P","L","A","C","E">> /\ ReplacedHistory.id > sqlite_sequence
                  THEN ReplacedHistory.id
             ELSE sqlite_sequence

StoreUnchanged == UNCHANGED <<tables, employees, query_history, sqlite_sequence>>

Event(op, sql, ok, id) == [op |-> op, sql |-> sql, ok |-> ok, id |-> id]

----------------------------------------------------------------------------
(* DatabaseConnection.execute_query *)

ReadWords == {<<"s","e","l","e","c","t">>, <<"p","r","a","g","m","a">>, <<"e","x","p","l","a","i","n">>, <<"w","i","t","h">>, <<"s","h","o","w">>}

\* sql.split()[0].lower() if sql else ''
first_word(q) ==
    LET sql == strip(q)
    IN  IF sql # <<>> THEN lower(FirstToken(sql)) ELSE <<>>

\* an execute_query whose failing write keeps what the statement wrote
execute_query_NoRollback(q, seen) ==
    LET called == Append(seen, Event("execute", q, TRUE, 0))
    IN  \/ /\ first_word(q) \in ReadWords
           /\ \E runs \in SqlOutcomes(q) :
                IF runs
                THEN /\ result' = DataFrame(SqlRows(q))
                     /\ execution_error' = None
                ELSE /\ result' = NoResult
                     /\ execution_error' = SqlError(q)
           /\ log' = called
           /\ StoreUnchanged
        \/ /\ first_word(q) \notin ReadWords
           /\ \E runs \in SqlOutcomes(q) :
                /\ IF runs THEN SqlCommit(q) ELSE StoreUnchanged
                /\ \/ /\ runs
                      /\ result' = DataFrame(<<>>)
                      /\ execution_error' = None
                      /\ log' = called \o << Event("begin", q, TRUE, 0),
                                             Event("commit", q, TRUE, 0) >>
                   \/ /\ result' = NoResult
                      /\ execution_error' = IF runs THEN StoreFault ELSE SqlError(q)
                      /\ log' = called \o << Event("begin", q, TRUE, 0),
                                             Event("rollback", q, TRUE, 0) >>

\* an execute_query whose rolled-back write goes on to return the empty
\* DataFrame and no error
execute_query_FailureDropped(q, seen) ==
    LET called == Append(seen, Event("execute", q, TRUE, 0))
    IN  \/ /\ result' = NoResult
           /\ execution_error' = StoreFault
           /\ log' = called
           /\ StoreUnchanged
        \/ /\ first_word(q) \in ReadWords
           /\ \E runs \in SqlOutcomes(q) :
                IF runs
                THEN /\ result' = DataFrame(SqlRows(q))
                     /\ execution_error' = None
                ELSE /\ result' = NoResult
                     /\ execution_error' = SqlError(q)
           /\ log' = called
           /\ StoreUnchanged
        \/ /\ first_word(q) \notin ReadWords
           /\ \E runs \in SqlOutcomes(q) :
                \/ /\ runs
                   /\ SqlCommit(q)
                   /\ result' = DataFrame(<<>>)
                   /\ execution_error' = None
                   /\ log' = called \o << Event("begin", q, TRUE, 0),
                                          Event("commit", q, TRUE, 0) >>
                \/ /\ StoreUnchanged
                   /\ result' = DataFrame(<<>>)
                   /\ execution_error' = None
                   /\ log' = called \o << Event("begin", q, TRUE, 0),
                                          Event("rollback", q, TRUE, 0) >>

\* execute_query(sql_query) -> (result, execution_error); seen is the log so far
execute_query(q, seen) ==
    LET called == Append(seen, Event("execute", q, TRUE, 0))
    IN  \/ \* engine.connect() raises
           /\ result' = NoResult
           /\ execution_error' = StoreFault
           /\ log' = called
           /\ StoreUnchanged
        \/ \* row-returning statement: pd.read_sql_query
           /\ first_word(q) \in ReadWords
           /\ \E runs \in SqlOutcomes(q) :
                IF runs
                THEN /\ result' = DataFrame(SqlRows(q))
                     /\ execution_error' = None
                ELSE /\ result' = NoResult
                     /\ execution_error' = SqlError(q)
           /\ log' = called
           /\ StoreUnchanged
        \/ \* other statements: conn.begin(), conn.execute, trans.commit()
           /\ first_word(q) \notin ReadWords
           /\ \E runs \in SqlOutcomes(q) :
                \/ /\ runs
                   /\ SqlCommit(q)
                   /\ result' = DataFrame(<<>>)
                   /\ execution_error' = None
                   /\ log' = called \o << Event("begin", q, TRUE, 0),
                                          Event("commit", q, TRUE, 0) >>
                \/ \* conn.execute or trans.commit raises: trans.rollback()
                   /\ StoreUnchanged
                   /\ result' = NoResult
                   /\ execution_error' = IF runs THEN StoreFault ELSE SqlError(q)
                   /\ log' = called \o << Event("begin", q, TRUE, 0),
                                          Event("rollback", q, TRUE, 0) >>

----------------------------------------------------------------------------
(* DatabaseConnection: query history *)

HistoryRow(id, ts, uq, sq, res, err, fav) ==
    [id |-> id, timestamp |-> ts, user_query |-> uq, sql_query |-> sq,
     result |-> res, error |-> err, favorite |-> fav]

HistoryIds == {query_history[i].id : i \in 1..Len(query_history)}

\* the row with an id
RowOfHistory(id) == query_history[CHOOSE n \in 1..Len(query_history) : query_history[n].id = id]

\* the id AUTOINCREMENT gives the next inserted row
NextRowId == Max(HistoryIds \cup {sqlite_sequence}) + 1

\* result_text of save_query_history; to_json may raise, which leaves ''
ResultTexts(result_df) ==
    IF result_df = NoResult THEN {<<>>} ELSE {to_json(result_df), <<>>}

\* a save_query_history that returns the id it meant to give also when the
\* row was not stored
save_query_history_IdAnyway(uq, sq, result_df, err) ==
    \E result_text \in ResultTexts(result_df) :
    \E path \in {"stored", "failed"} :
        LET row == HistoryRow(NextRowId, cycle, uq, sq, result_text,
                              IF err = None THEN "" ELSE err, 0)
            stored == path # "failed"
        IN  /\ stored => "query_history" \in tables
            /\ query_history' = IF stored THEN Append(query_history, row)
                                          ELSE query_history
            /\ sqlite_sequence' = IF stored THEN row.id ELSE sqlite_sequence
            /\ history_id' = row.id
            /\ written' = IF stored THEN written \cup {<<cycle, row.id>>} ELSE written
            /\ log' = Append(log, Event("append", sq, stored, row.id))
            /\ UNCHANGED <<tables, employees>>

\* save_query_history(user_query, sql_query, result_df, error) -> row id.
\* The INSERT runs in engine.begin(); when that raises (and rolls back), it runs
\* once more on a direct sqlite3 connection to the same file; when that raises
\* too, -1.  "stored": one of the two INSERTs was committed; "failed": neither.
save_query_history(uq, sq, result_df, err) ==
    \E result_text \in ResultTexts(result_df) :
    \E path \in {"stored", "failed"} :
        LET row == HistoryRow(NextRowId, cycle, uq, sq, result_text,
                              IF err = None THEN "" ELSE err, 0)
            stored == path # "failed"
        IN  /\ stored => "query_history" \in tables
            /\ query_history' = IF stored THEN Append(query_history, row)
                                          ELSE query_history
            /\ sqlite_sequence' = IF stored THEN row.id ELSE sqlite_sequence
            /\ history_id' = IF stored THEN row.id ELSE -1
            /\ written' = IF stored THEN written \cup {<<cycle, row.id>>} ELSE written
            /\ log' = Append(log, Event("append", sq, stored,
                                        IF stored THEN row.id ELSE -1))
            /\ UNCHANGED <<tables, employees>>

\* a get_query_history that orders by id ascending
get_query_history_OldestFirst(limit) ==
    IF Len(query_history) <= limit THEN query_history
    ELSE SubSeq(query_history, 1, limit)

\* a get_query_history without the LIMIT
get_query_history_Unlimited(limit) ==
    [i \in 1..Len(query_history) |-> query_history[Len(query_history) + 1 - i]]

\* get_query_history(limit): ORDER BY id DESC LIMIT :lim, or [] on failure
Reverse(s) == [i \in 1..Len(s) |-> s[Len(s) + 1 - i]]

get_query_history(limit) ==
    LET newest == Reverse(query_history)
    IN  IF Len(newest) <= limit THEN newest ELSE SubSeq(newest, 1, limit)

\* a toggle_favorite that sets the flag instead of flipping it
toggle_favorite_via_SetOnly(hid, path) ==
    LET found == path # "failed" /\ "query_history" \in tables /\ hid \in HistoryIds
        i == CHOOSE i \in 1..Len(query_history) : query_history[i].id = hid
    IN  /\ query_history' =
             IF found THEN [query_history EXCEPT ![i].favorite = 1]
                      ELSE query_history
        /\ shown' = found

\* a toggle_favorite whose UPDATE stays when the call fails after it
toggle_favorite_via_UpdateKept(hid, path) ==
    LET found == "query_history" \in tables /\ hid \in HistoryIds
        i == CHOOSE i \in 1..Len(query_history) : query_history[i].id = hid
        new_val == IF query_history[i].favorite = 1 THEN 0 ELSE 1
    IN  /\ query_history' =
             IF found THEN [query_history EXCEPT ![i].favorite = new_val]
                      ELSE query_history
        /\ shown' = IF found /\ path # "failed" THEN (new_val = 1) ELSE FALSE

\* toggle_favorite(history_id) -> the new state, or False.  SELECT and UPDATE
\* run in one engine.begin() block; when it raises they run once more on a
\* direct sqlite3 connection; when that raises too, False.  "done": one of the
\* two blocks ran to its commit; "failed": neither.
toggle_favorite_via(hid, path) ==
    LET found == path # "failed" /\ "query_history" \in tables /\ hid \in HistoryIds
        i == CHOOSE i \in 1..Len(query_history) : query_history[i].id = hid
        new_val == IF query_history[i].favorite = 1 THEN 0 ELSE 1
    IN  /\ query_history' =
             IF found THEN [query_history EXCEPT ![i].favorite = new_val]
                      ELSE query_history
        /\ shown' = IF found THEN (new_val = 1) ELSE FALSE

toggle_favorite(hid) ==
    \E path \in {"done", "failed"} : toggle_favorite_via(hid, path)

----------------------------------------------------------------------------
(* SchemaManager: the cached schema and its refresh *)

\* the order in which the catalog lists the tables (by name)
CatalogOrder == <<"employees", "query_history">>

\* inspector.get_table_names() read from the database
get_table_names == SelectSeq(CatalogOrder, LAMBDA t : t \in tables)

\* inspector.get_columns(table), as {name: str(type)} in column order
get_columns(table) ==
    IF table = "employees"
    THEN << <<"employee_id", "INTEGER">>, <<"first_name", "TEXT">>,
            <<"last_name", "TEXT">>, <<"salary", "DECIMAL(10, 2)">>,
            <<"hire_date", "DATE">>, <<"department_id", "INTEGER">>,
            <<"department", "TEXT">>, <<"residence_city", "TEXT">>,
            <<"age", "INTEGER">>, <<"job_level", "TEXT">> >>
    ELSE << <<"id", "INTEGER">>, <<"timestamp", "TEXT">>, <<"user_query", "TEXT">>,
            <<"sql_query", "TEXT">>, <<"result", "TEXT">>, <<"error", "TEXT">>,
            <<"favorite", "INTEGER">> >>

TableRows(table) == IF table = "employees" THEN employees ELSE query_history

\* a _get_sample_data whose rows begin further down the table with every
\* press of the refresh button
_get_sample_data_Moving(table_name, limit, raises) ==
    LET rows == TableRows(table_name)
        from == Min({refreshes + 1, Len(rows) + 1})
    IN  IF raises \/ table_name \notin tables THEN <<>>
        ELSE SubSeq(rows, from, Min({from + limit - 1, Len(rows)}))

\* a _get_sample_data without the LIMIT
_get_sample_data_NoLimit(table_name, limit, raises) ==
    IF raises \/ table_name \notin tables THEN <<>> ELSE TableRows(table_name)

\* _get_sample_data(table_name, limit): SELECT * FROM table LIMIT limit as
\* records, or [] when the read raises
_get_sample_data(table_name, limit, raises) ==
    LET rows == TableRows(table_name)
    IN  IF raises \/ table_name \notin tables THEN <<>>
        ELSE IF Len(rows) <= limit THEN rows ELSE SubSeq(rows, 1, limit)

\* the limit _refresh_schema passes to _get_sample_data
SampleLimit == 3

\* self.schema[table] = value
SetItem(dict, key, value) ==
    [k \in DOMAIN dict \cup {key} |-> IF k = key THEN value ELSE dict[k]]

\* {}
EmptyDict == [k \in {} |-> {}]

\* no _refresh_schema call is running
NotRefreshing == [at |-> 0, store |-> <<>>, failed |-> {}]

\* what a _refresh_schema call that returned has built
Built(names, dict, run) ==
    [tables |-> names, schema |-> dict, began |-> run.store,
     ended |-> <<employees, query_history>>, failed |-> run.failed]

\* no reader has read yet
NotObserved == [read |-> FALSE, tables |-> <<>>, context |-> <<>>, keys |-> {},
                during |-> FALSE]

\* the schema with every table of the catalog, every sample read
FullSchema ==
    [t \in tables |-> [columns |-> get_columns(t),
                       sample_data |-> _get_sample_data(t, SampleLimit, FALSE)]]

\* the schema manager after SchemaManager(engine) returned in
\* initialize_system, with no sample read failed
SchemaConstructed ==
    /\ schema_manager = "ready"
    /\ available_tables = get_table_names
    /\ schema = FullSchema
    /\ info_cache = [table_names |-> get_table_names, columns |-> tables]
    /\ refreshing = NotRefreshing
    /\ refreshes = 0
    /\ published = <<>>
    /\ observed = NotObserved

\* get_available_tables()
get_available_tables == available_tables

\* get_schema_context(): table by table in the order of the dict, the
\* columns and the sample rows of each
schema_context(dict) ==
    LET listed == SelectSeq(CatalogOrder, LAMBDA t : t \in DOMAIN dict)
    IN  [n \in 1..Len(listed) |->
            <<listed[n], dict[listed[n]].columns, dict[listed[n]].sample_data>>]

get_schema_context == schema_context(schema)

\* no execute_query call and no toggle_favorite call is inside its with block
NoCallRunning ==
    /\ conn = "none"
    /\ trans = "none"
    /\ toggle_calls = <<>>
    /\ write_lock = 0
    /\ last_applied = <<>>

----------------------------------------------------------------------------
(* Inputs *)

\* process_query calls of one run of the application
MaxCycles == 2

\* the question typed into the text area (stripped, not empty); the run button
\* of a history row adds the questions stored there
Requests == { <<"c","o","u","n","t"," ","b","y"," ","d","e","p","a","r","t","m","e","n","t">> }

\* texts the language model continues the prompt with
ModelOutputs ==
    { <<"S","E","L","E","C","T"," ","*"," ","F","R","O","M"," ","e","m","p","l","o","y","e","e","s",";"," ","D","R","O","P"," ","T","A","B","L","E"," ","e","m","p","l","o","y","e","e","s",";">>,
      <<"D","R","O","P"," ","T","A","B","L","E"," ","e","m","p","l","o","y","e","e","s",";">>,
      <<"R","E","P","L","A","C","E"," ","I","N","T","O"," ","e","m","p","l","o","y","e","e","s"," ","(","e","m","p","l","o","y","e","e","_","i","d",","," ","f","i","r","s","t","_","n","a","m","e",","," ","l","a","s","t","_","n","a","m","e",")"," ","V","A","L","U","E","S"," ","(","1",","," ","'","x","'",","," ","'","y","'",")",";">>,
      <<"R","E","P","L","A","C","E"," ","I","N","T","O"," ","q","u","e","r","y","_","h","i","s","t","o","r","y"," ","V","A","L","U","E","S"," ","(","1",","," ","0",","," ","'","x","'",","," ","'","x","'",","," ","'","'",","," ","'","'",","," ","1",")",";">> }

\* ids the favorite button is pressed for (rows of the rendered history, and
\* one id no row has)
ToggleIds == 1..(MaxCycles + 1)

----------------------------------------------------------------------------
(* NLToSQLApp.process_query, one action per call it makes *)

CycleLocals == <<user_query, sql_query, error, result, execution_error, history_id>>
Config == <<ENABLE_SAFETY_CHECKS, model>>
Store == <<tables, employees, query_history, sqlite_sequence>>
SchemaState == <<schema_manager, available_tables, schema, info_cache, refreshing,
                 refreshes, published, observed>>
CallState == <<conn, trans, toggle_calls, write_lock, last_applied>>
TextState == <<candidate, verdict, calls, SchemaState, CallState>>

\* no process_query call is running: before the first, or after one returned
\* ("Aborted": at the return of line 156, "Done": at the end of the method)
AtRest == {"Idle", "Done", "Aborted"}

\* process_query is entered with the text-area content (render_main) or with
\* the user_query of a history row (render_history, run button)
StartCycle(q) ==
    /\ pc \in AtRest
    /\ cycle < MaxCycles
    /\ cycle' = cycle + 1
    /\ pc' = "Received"
    /\ user_query' = q
    /\ sql_query' = NoText
    /\ error' = None
    /\ result' = NoResult
    /\ execution_error' = None
    /\ history_id' = 0
    /\ log' = <<>>
    /\ shown' = FALSE
    /\ UNCHANGED <<Config, Store, TextState, last_result, written>>

ProcessQuery == \E q \in Requests : StartCycle(q)

RunFromHistory ==
    \E i \in 1..Len(query_history) :
        /\ strip(query_history[i].user_query) # <<>>
        /\ StartCycle(query_history[i].user_query)

\* a generate_sql that returns the failure of the model path as its error
GenerateRuleBased_FailureReturned ==
    /\ sql_query' = IF model = None THEN _rule_based_sql(user_query) ELSE NoText
    /\ error' = IF model = None THEN None ELSE "Error generating SQL"
    /\ log' = log

\* generate_sql, rule-based branch: the model is None, or the model path raised
GenerateRuleBased ==
    /\ sql_query' = _rule_based_sql(user_query)
    /\ error' = None
    /\ log' = log

\* a model branch that validates the extracted query and returns it whatever
\* the verdict
GenerateWithModel_VerdictIgnored ==
    \E out \in ModelOutputs :
        LET generated_text == create_enhanced_prompt(user_query) \o out
            extracted == _extract_sql(generated_text)
            check == _validate_sql_safety(extracted)
        IN  /\ log' = Append(log, Event("validate", extracted, check[1], 0))
            /\ sql_query' = extracted
            /\ error' = None

\* generate_sql, model branch: generate, decode, _extract_sql, safety validation
GenerateWithModel ==
    \E out \in ModelOutputs :
        LET generated_text == create_enhanced_prompt(user_query) \o out
            extracted == _extract_sql(generated_text)
            check == _validate_sql_safety(extracted)
        IN  /\ log' = Append(log, Event("validate", extracted, check[1], 0))
            /\ IF ~check[1]
               THEN /\ sql_query' = NoText
                    /\ error' = "Safety violation: " \o check[2]
               ELSE /\ sql_query' = extracted
                    /\ error' = None

GenerateSql ==
    /\ pc = "Received"
    /\ \/ model = None /\ GenerateRuleBased
       \/ model # None /\ GenerateWithModel
       \/ model # None /\ GenerateRuleBased
    /\ pc' = "Translated"
    /\ UNCHANGED <<Config, Store, TextState, user_query, result, execution_error,
                   history_id, last_result, shown, cycle, written>>

\* if error: st.error(...); return
ReturnOnError ==
    /\ pc = "Translated"
    /\ error # None
    /\ pc' = "Aborted"
    /\ log' = Append(log, Event("return", sql_query, FALSE, 0))
    /\ UNCHANGED <<Config, Store, TextState, CycleLocals, last_result, shown, cycle,
                   written>>

ExecuteQuery ==
    /\ pc = "Translated"
    /\ error = None
    /\ execute_query(sql_query, log)
    /\ pc' = "Executed"
    /\ UNCHANGED <<Config, TextState, user_query, sql_query, error, history_id,
                   last_result, shown, cycle, written>>

\* a history step that saves successful executions only
SaveQueryHistory_OnlySuccess ==
    /\ pc = "Executed"
    /\ IF execution_error = None
       THEN save_query_history(user_query, sql_query, result, execution_error)
       ELSE UNCHANGED <<Store, history_id, written, log>>
    /\ pc' = "Logged"
    /\ UNCHANGED <<Config, TextState, user_query, sql_query, error, result,
                   execution_error, last_result, shown, cycle>>

SaveQueryHistory ==
    /\ pc = "Executed"
    /\ save_query_history(user_query, sql_query, result, execution_error)
    /\ pc' = "Logged"
    /\ UNCHANGED <<Config, TextState, user_query, sql_query, error, result,
                   execution_error, last_result, shown, cycle>>

\* st.session_state.last_result = {...}
StoreResults ==
    /\ pc = "Logged"
    /\ last_result' = [user_query |-> user_query, sql_query |-> sql_query,
                       result |-> result, error |-> execution_error,
                       history_id |-> history_id]
    /\ pc' = "Done"
    /\ log' = Append(log, Event("return", sql_query, TRUE, history_id))
    /\ UNCHANGED <<Config, Store, TextState, CycleLocals, shown, cycle, written>>

\* render_history: the favorite button of a row
ToggleFavorite ==
    /\ pc \in AtRest
    /\ \E hid \in ToggleIds : toggle_favorite(hid)
    /\ UNCHANGED <<Config, TextState, CycleLocals, tables, employees, sqlite_sequence,
                   pc, last_result, cycle, log, written>>

\* render_history: get_query_history(limit=20), [] when the read fails
HistoryLimit == 20

RenderHistory ==
    /\ pc \in AtRest
    /\ shown' \in {get_query_history(HistoryLimit), <<>>}
    /\ UNCHANGED <<Config, Store, TextState, CycleLocals, pc, last_result, cycle,
                   log, written>>

----------------------------------------------------------------------------
(* The application *)

NoVerdict == <<FALSE, "not validated">>

\* everything but the configuration, after NLToSQLApp.__init__
Constructed ==
    /\ tables = {"employees", "query_history"}
    /\ employees = SeedEmployees
    /\ query_history = <<>>
    /\ sqlite_sequence = 0
    /\ pc = "Idle"
    /\ user_query = NoText
    /\ sql_query = NoText
    /\ error = None
    /\ result = NoResult
    /\ execution_error = None
    /\ history_id = 0
    /\ last_result = [user_query |-> NoText, sql_query |-> NoText,
                      result |-> NoResult, error |-> None, history_id |-> 0]
    /\ shown = FALSE
    /\ cycle = 0
    /\ log = <<>>
    /\ written = {}
    /\ verdict = NoVerdict
    /\ calls = <<>>
    /\ SchemaConstructed
    /\ NoCallRunning

\* settings.ENABLE_SAFETY_CHECKS has its default, True; the model was loaded
\* or loading it raised (self.model = None)
Init ==
    /\ ENABLE_SAFETY_CHECKS = TRUE
    /\ model \in {"loaded", None}
    /\ candidate = <<>>
    /\ Constructed

Next ==
    \/ ProcessQuery
    \/ RunFromHistory
    \/ GenerateSql
    \/ ReturnOnError
    \/ ExecuteQuery
    \/ SaveQueryHistory
    \/ StoreResults
    \/ ToggleFavorite
    \/ RenderHistory

Spec == Init /\ [][Next]_vars

----------------------------------------------------------------------------
(* The safety validator and the executor applied to arbitrary query texts *)

\* the most pieces of a candidate text
MaxPieces == 3

\* pieces a candidate text is put together from
Pieces ==
    { <<"S","E","L","E","C","T"," ","*"," ","F","R","O","M"," ","e","m","p","l","o","y","e","e","s">>, <<"S","E","L","E","C","T","*"," ","F","R","O","M"," ","e","m","p","l","o","y","e","e","s">>, <<"S","h","o","w">>, <<"D","R","O","P">>,
      <<"e","x","e","c">>, <<"_">>, <<" ">>, <<";">>, <<"\n">>, <<"-","-">>, <<"/","*">>, <<"*","/">> }

RECURSIVE TextsOf(_)
TextsOf(n) ==
    IF n = 0 THEN {<<>>}
    ELSE {p \o t : p \in Pieces, t \in TextsOf(n - 1)}

Texts == UNION {TextsOf(n) : n \in 0..MaxPieces}

InitText ==
    /\ ENABLE_SAFETY_CHECKS \in BOOLEAN
    /\ model = None
    /\ candidate \in Texts
    /\ Constructed

\* _validate_sql_safety(candidate)
ValidateText ==
    /\ pc = "Idle"
    /\ verdict' = _validate_sql_safety(candidate)
    /\ pc' = "TextValidated"
    /\ UNCHANGED <<Config, Store, CycleLocals, candidate, last_result, shown,
                   cycle, log, written, calls, SchemaState,
                   CallState>>

\* execute_query(candidate)
ExecuteText ==
    /\ pc = "TextValidated"
    /\ execute_query(candidate, log)
    /\ pc' = "TextExecuted"
    /\ UNCHANGED <<Config, TextState, user_query, sql_query, error, history_id,
                   last_result, shown, cycle, written>>

NextText == ValidateText \/ ExecuteText

SpecText == InitText /\ [][NextText]_vars

----------------------------------------------------------------------------
(* The rule-based translator applied to arbitrary requests *)

\* pieces a request text is put together from
RequestPieces ==
    { <<"S","h","o","w"," ","m","e"," ","t","h","e"," ","a","v","e","r","a","g","e"," ","s","a","l","a","r","y"," ","b","y"," ","d","e","p","a","r","t","m","e","n","t">>, <<"T","o","p"," ","5"," ","h","i","g","h","e","s","t"," ","p","a","i","d"," ","e","m","p","l","o","y","e","e","s">>,
      <<"C","o","u","n","t">>, <<"D","E","P","A","R","T","M","E","N","T">>, <<"a","v","e","r","a","g","e">>, <<"s","a","l","a","r","y">>, <<"l","o","w","e","s","t">>, <<"c","i","t","y">>,
      <<"l","o","c","a","t","i","o","n">>, <<"s","a","l","e","s">>, <<"h","r">> }

RECURSIVE RequestsOf(_)
RequestsOf(n) ==
    IF n = 0 THEN {<<>>}
    ELSE {p \o t : p \in RequestPieces, t \in RequestsOf(n - 1)}

RequestTexts == UNION {RequestsOf(n) : n \in 0..MaxPieces}

\* a request translated before the one looked at
EarlierRequests == { <<"T","o","p"," ","5"," ","h","i","g","h","e","s","t"," ","p","a","i","d"," ","e","m","p","l","o","y","e","e","s">> }

InitRequest ==
    /\ ENABLE_SAFETY_CHECKS = TRUE
    /\ model \in {"loaded", None}
    /\ candidate \in RequestTexts
    /\ Constructed

\* generate_sql(natural_language_query) is called with an earlier request
ReceiveEarlier ==
    /\ pc = "Idle"
    /\ cycle = 0
    /\ user_query' \in EarlierRequests
    /\ cycle' = 1
    /\ pc' = "Received"
    /\ UNCHANGED <<Config, Store, TextState, sql_query, error, result,
                   execution_error, history_id, last_result, shown, log, written>>

\* generate_sql(natural_language_query) is called with the request
ReceiveRequest ==
    /\ pc \in {"Idle", "Translated"}
    /\ cycle < 2
    /\ user_query' = candidate
    /\ cycle' = 2
    /\ pc' = "Received"
    /\ UNCHANGED <<Config, Store, TextState, sql_query, error, result,
                   execution_error, history_id, last_result, shown, log, written>>

\* generate_sql returns self._rule_based_sql(natural_language_query), None:
\* the model is None, or the model path raised
TranslateRuleBased ==
    /\ pc = "Received"
    /\ GenerateRuleBased
    /\ pc' = "Translated"
    /\ UNCHANGED <<Config, Store, TextState, user_query, result, execution_error,
                   history_id, last_result, shown, cycle, written>>

NextRequest == ReceiveEarlier \/ ReceiveRequest \/ TranslateRuleBased

SpecRequest == InitRequest /\ [][NextRequest]_vars

----------------------------------------------------------------------------
(* The history calls of DatabaseConnection, one after another *)

\* calls of one sequence
MaxCalls == 3

\* the history two earlier cycles left, the second row marked as favorite
StoredHistory ==
    << HistoryRow(1, 1, <<"a">>, <<"s">>, <<>>, "", 0),
       HistoryRow(2, 2, <<"b">>, <<"t">>, <<>>, "syntax error", 1) >>

\* what save_query_history is called with: a query that ran, one that failed
AppendArguments ==
    { [user_query |-> <<"a">>, sql_query |-> <<"s">>, result |-> DataFrame(<<>>),
       error |-> None],
      [user_query |-> <<"b">>, sql_query |-> <<"t">>, result |-> NoResult,
       error |-> "syntax error"] }

\* limits get_query_history is called with: none, fewer than the rows, the
\* limit render_history passes
Limits == {0, 1, 2, HistoryLimit}

InitHistory ==
    /\ ENABLE_SAFETY_CHECKS = TRUE
    /\ model = None
    /\ tables = {"employees", "query_history"}
    /\ employees = SeedEmployees
    /\ query_history \in {<<>>, StoredHistory}
    /\ sqlite_sequence = Len(query_history)
    /\ written = {<<n, n>> : n \in 1..Len(query_history)}
    /\ cycle = Len(query_history)
    /\ pc = "Idle"
    /\ user_query = NoText
    /\ sql_query = NoText
    /\ error = None
    /\ result = NoResult
    /\ execution_error = None
    /\ history_id = 0
    /\ last_result = [user_query |-> NoText, sql_query |-> NoText,
                      result |-> NoResult, error |-> None, history_id |-> 0]
    /\ shown = FALSE
    /\ log = <<>>
    /\ candidate = <<>>
    /\ verdict = NoVerdict
    /\ calls = <<>>
    /\ SchemaConstructed
    /\ NoCallRunning

\* save_query_history(user_query, sql_query, result_df, error)
AppendCall ==
    /\ Len(calls) < MaxCalls
    /\ \E a \in AppendArguments :
          /\ save_query_history(a.user_query, a.sql_query, a.result, a.error)
          /\ calls' = Append(calls, [op |-> "append", arg |-> a, failed |-> history_id' = -1,
                                     ret |-> history_id', before |-> query_history,
                                     after |-> query_history'])
    /\ UNCHANGED <<Config, pc, user_query, sql_query, error, result, execution_error,
                   last_result, shown, cycle, candidate, verdict, SchemaState, CallState>>

\* get_query_history(limit): the rows read, or [] when both reads raise
RecentCall ==
    /\ Len(calls) < MaxCalls
    /\ \E lim \in Limits : \E failed \in BOOLEAN :
          /\ shown' = IF failed THEN <<>> ELSE get_query_history(lim)
          /\ calls' = Append(calls, [op |-> "recent", arg |-> lim, failed |-> failed,
                                     ret |-> shown', before |-> query_history,
                                     after |-> query_history])
    /\ UNCHANGED <<Config, Store, CycleLocals, pc, last_result, cycle, log, written,
                   candidate, verdict, SchemaState, CallState>>

\* toggle_favorite(history_id), for the id of a row or an id no row has
ToggleCall ==
    /\ Len(calls) < MaxCalls
    /\ \E hid \in HistoryIds \cup {NextRowId} : \E path \in {"done", "failed"} :
          /\ toggle_favorite_via(hid, path)
          /\ calls' = Append(calls, [op |-> "toggle", arg |-> hid, failed |-> path = "failed",
                                     ret |-> shown', before |-> query_history,
                                     after |-> query_history'])
    /\ UNCHANGED <<Config, CycleLocals, tables, employees, sqlite_sequence, pc,
                   last_result, cycle, log, written, candidate, verdict,
                   SchemaState, CallState>>

NextHistory == AppendCall \/ RecentCall \/ ToggleCall

SpecHistory == InitHistory /\ [][NextHistory]_vars

----------------------------------------------------------------------------
(* The schema manager: construction, the "Refresh Schema" button, readers *)

\* presses of the "Refresh Schema" button
MaxRefreshes == 2

\* the first rows of employees_data
FirstEmployees ==
    << [employee_id |-> 1, first_name |-> "Jessika"],
       [employee_id |-> 2, first_name |-> "Donni"],
       [employee_id |-> 3, first_name |-> "Pat"],
       [employee_id |-> 4, first_name |-> "Raddie"] >>

InitSchema ==
    /\ ENABLE_SAFETY_CHECKS = TRUE
    /\ model = None
    /\ tables = {"employees", "query_history"}
    /\ employees = FirstEmployees
    /\ query_history \in {<<>>, StoredHistory}
    /\ sqlite_sequence = Len(query_history)
    /\ written = {<<n, n>> : n \in 1..Len(query_history)}
    /\ cycle = Len(query_history)
    /\ pc = "Idle"
    /\ user_query = NoText
    /\ sql_query = NoText
    /\ error = None
    /\ result = NoResult
    /\ execution_error = None
    /\ history_id = 0
    /\ last_result = [user_query |-> NoText, sql_query |-> NoText,
                      result |-> NoResult, error |-> None, history_id |-> 0]
    /\ shown = FALSE
    /\ log = <<>>
    /\ candidate = <<>>
    /\ verdict = NoVerdict
    /\ calls = <<>>
    /\ schema_manager = "none"
    /\ available_tables = <<>>
    /\ schema = EmptyDict
    /\ info_cache = [table_names |-> None, columns |-> {}]
    /\ refreshing = NotRefreshing
    /\ refreshes = 0
    /\ published = <<>>
    /\ observed = NotObserved
    /\ NoCallRunning

SessionState == <<Config, CycleLocals, pc, last_result, shown, candidate, verdict, calls,
                  CallState>>

\* initialize_system: SchemaManager(engine), whose __init__ creates the
\* inspector and calls _refresh_schema
Construct ==
    /\ schema_manager = "none"
    /\ schema_manager' = "constructing"
    /\ refreshing' = [at |-> 1, store |-> <<employees, query_history>>, failed |-> {}]
    /\ UNCHANGED <<SessionState, Store, cycle, log, written, available_tables, schema,
                   info_cache, refreshes, published, observed>>

\* render_sidebar: the "Refresh Schema" button calls _refresh_schema
RefreshButton ==
    /\ schema_manager = "ready"
    /\ refreshing.at = 0
    /\ refreshes < MaxRefreshes
    /\ refreshes' = refreshes + 1
    /\ refreshing' = [at |-> 1, store |-> <<employees, query_history>>, failed |-> {}]
    /\ UNCHANGED <<SessionState, Store, cycle, log, written, schema_manager,
                   available_tables, schema, info_cache, published, observed>>

\* a catalog failure that is swallowed: the manager counts as constructed
RefreshRaises_Swallowed ==
    /\ refreshing' = NotRefreshing
    /\ schema_manager' = "ready"
    /\ UNCHANGED <<available_tables, schema, info_cache, published>>

\* the exception of a catalog read leaves _refresh_schema; out of __init__ it
\* reaches the handler of initialize_system, which calls st.stop()
RefreshRaises ==
    /\ refreshing' = NotRefreshing
    /\ schema_manager' = IF schema_manager = "constructing" THEN "halted"
                                                            ELSE schema_manager
    /\ UNCHANGED <<available_tables, schema, info_cache, published>>

\* _refresh_schema returns
RefreshReturns(names, dict, run) ==
    /\ refreshing' = NotRefreshing
    /\ schema_manager' = "ready"
    /\ published' = Append(published, Built(names, dict, run))

\* self.tables = self.inspector.get_table_names(); the inspector reads the
\* names once and keeps them
ReadTableNames ==
    /\ refreshing.at = 1
    /\ \E raises \in (IF info_cache.table_names = None THEN BOOLEAN ELSE {FALSE}) :
          IF raises
          THEN RefreshRaises
          ELSE LET names == IF info_cache.table_names = None
                            THEN get_table_names ELSE info_cache.table_names
               IN  /\ available_tables' = names
                   /\ info_cache' = [info_cache EXCEPT !.table_names = names]
                   /\ refreshing' = [refreshing EXCEPT !.at = 2]
                   /\ UNCHANGED <<schema_manager, schema, published>>
    /\ UNCHANGED <<SessionState, Store, cycle, log, written, refreshes, observed>>

\* self.schema = {}
ClearSchema ==
    /\ refreshing.at = 2
    /\ schema' = EmptyDict
    /\ IF available_tables = <<>>
       THEN RefreshReturns(available_tables, EmptyDict, refreshing)
       ELSE /\ refreshing' = [refreshing EXCEPT !.at = 3]
            /\ UNCHANGED <<schema_manager, published>>
    /\ UNCHANGED <<SessionState, Store, cycle, log, written, available_tables,
                   info_cache, refreshes, observed>>

\* one pass of the loop: get_columns(table), _get_sample_data(table, limit=3),
\* self.schema[table] = {...}; the inspector reads the columns of a table once
BuildTable ==
    /\ refreshing.at >= 3
    /\ LET table == available_tables[refreshing.at - 2]
       IN  \E raises \in (IF table \in info_cache.columns THEN {FALSE} ELSE BOOLEAN) :
           \E sample_raises \in BOOLEAN :
              IF raises
              THEN RefreshRaises
              ELSE LET entry == [columns |-> get_columns(table),
                                 sample_data |-> _get_sample_data(table, SampleLimit,
                                                                  sample_raises)]
                       dict == SetItem(schema, table, entry)
                       run == [refreshing EXCEPT
                                 !.failed = IF sample_raises THEN @ \cup {table} ELSE @]
                   IN  /\ schema' = dict
                       /\ info_cache' = [info_cache EXCEPT !.columns = @ \cup {table}]
                       /\ UNCHANGED available_tables
                       /\ IF refreshing.at - 2 = Len(available_tables)
                          THEN RefreshReturns(available_tables, dict, run)
                          ELSE /\ refreshing' = [run EXCEPT !.at = @ + 1]
                               /\ UNCHANGED <<schema_manager, published>>
    /\ UNCHANGED <<SessionState, Store, cycle, log, written, refreshes, observed>>

\* a reader of the constructed schema manager: get_available_tables() and
\* get_schema_context(), while a refresh runs or while none does
ReadContext ==
    /\ schema_manager = "ready"
    /\ observed' = [read |-> TRUE, tables |-> get_available_tables, context |-> get_schema_context,
                    keys |-> DOMAIN schema, during |-> refreshing.at # 0]
    /\ UNCHANGED <<SessionState, Store, cycle, log, written, schema_manager,
                   available_tables, schema, info_cache, refreshing, refreshes, published>>

\* a cycle of the session stores its history row: the store changes
StoreChanges ==
    /\ schema_manager \in {"constructing", "ready"}
    /\ log = <<>>
    /\ save_query_history(<<"a">>, <<"s">>, NoResult, None)
    /\ cycle' = cycle + 1
    /\ UNCHANGED <<Config, pc, user_query, sql_query, error, result, execution_error,
                   last_result, shown, candidate, verdict, calls, SchemaState,
                   CallState>>

NextSchema ==
    \/ Construct
    \/ RefreshButton
    \/ ReadTableNames
    \/ ClearSchema
    \/ BuildTable
    \/ ReadContext
    \/ StoreChanges

SpecSchema == InitSchema /\ [][NextSchema]_vars

----------------------------------------------------------------------------
(* Two toggle_favorite calls on one row, statement by statement *)

\* a call at the SELECT of its engine.begin() block
Entered(hid) == [id |-> hid, pc |-> "select", attempt |-> 1, new_val |-> 0, ret |-> FALSE]

InitRace ==
    /\ ENABLE_SAFETY_CHECKS = TRUE
    /\ model = None
    /\ tables = {"employees", "query_history"}
    /\ employees = SeedEmployees
    /\ query_history = StoredHistory
    /\ sqlite_sequence = Len(query_history)
    /\ written = {<<n, n>> : n \in 1..Len(query_history)}
    /\ cycle = Len(query_history)
    /\ pc = "Idle"
    /\ user_query = NoText
    /\ sql_query = NoText
    /\ error = None
    /\ result = NoResult
    /\ execution_error = None
    /\ history_id = 0
    /\ last_result = [user_query |-> NoText, sql_query |-> NoText,
                      result |-> NoResult, error |-> None, history_id |-> 0]
    /\ shown = FALSE
    /\ log = <<>>
    /\ candidate = <<>>
    /\ verdict = NoVerdict
    /\ calls = <<>>
    /\ SchemaConstructed
    /\ conn = "none"
    /\ trans = "none"
    /\ \E hid \in HistoryIds : toggle_calls = <<Entered(hid), Entered(hid)>>
    /\ write_lock = 0
    /\ last_applied = <<>>

NotOfRace == <<Config, CycleLocals, tables, employees, sqlite_sequence, pc, last_result,
               shown, cycle, log, written, candidate, verdict, calls, SchemaState,
               conn, trans>>

\* an exception inside a block: the transaction is rolled back, and the
\* engine.begin() block is followed by the sqlite3 block, the sqlite3 block
\* by return False
ToggleRaises(c) ==
    /\ toggle_calls' =
         [toggle_calls EXCEPT ![c] =
            IF @.attempt = 1
            THEN [@ EXCEPT !.attempt = 2, !.pc = "select"]
            ELSE [@ EXCEPT !.pc = "returned", !.ret = FALSE]]
    /\ write_lock' = IF write_lock = c THEN 0 ELSE write_lock
    /\ UNCHANGED <<query_history, last_applied>>

\* SELECT favorite FROM query_history WHERE id = :id, fetchone, new_val
ToggleSelect(c) ==
    /\ toggle_calls[c].pc = "select"
    /\ \E raises \in BOOLEAN :
          IF raises
          THEN ToggleRaises(c)
          ELSE /\ toggle_calls' =
                    [toggle_calls EXCEPT ![c] =
                       IF @.id \in HistoryIds
                       THEN [@ EXCEPT !.pc = "update",
                                      !.new_val = IF RowOfHistory(toggle_calls[c].id).favorite = 1
                                                  THEN 0 ELSE 1]
                       ELSE [@ EXCEPT !.pc = "returned", !.ret = FALSE]]
               /\ UNCHANGED <<query_history, write_lock, last_applied>>
    /\ UNCHANGED NotOfRace

\* UPDATE query_history SET favorite = :fav WHERE id = :id: the statement
\* takes the write lock of the database, or raises when it cannot get it
ToggleUpdate(c) ==
    /\ toggle_calls[c].pc = "update"
    /\ \E raises \in BOOLEAN :
          IF raises
          THEN ToggleRaises(c)
          ELSE /\ write_lock = 0
               /\ write_lock' = c
               /\ toggle_calls' = [toggle_calls EXCEPT ![c].pc = "commit"]
               /\ UNCHANGED <<query_history, last_applied>>
    /\ UNCHANGED NotOfRace

\* a commit that is dropped when another call has committed its UPDATE
ToggleCommit_FirstWins(c) ==
    /\ toggle_calls[c].pc = "commit"
    /\ query_history' =
         IF last_applied # <<>> THEN query_history
         ELSE [n \in 1..Len(query_history) |->
                 IF query_history[n].id = toggle_calls[c].id
                 THEN [query_history[n] EXCEPT !.favorite = toggle_calls[c].new_val]
                 ELSE query_history[n]]
    /\ last_applied' = <<toggle_calls[c].new_val>>
    /\ write_lock' = 0
    /\ toggle_calls' = [toggle_calls EXCEPT ![c] =
                          [@ EXCEPT !.pc = "returned", !.ret = (toggle_calls[c].new_val = 1)]]
    /\ UNCHANGED NotOfRace

\* the commit at the end of the block, then return bool(new_val)
ToggleCommit(c) ==
    /\ toggle_calls[c].pc = "commit"
    /\ \E raises \in BOOLEAN :
          IF raises
          THEN ToggleRaises(c)
          ELSE /\ query_history' =
                    [n \in 1..Len(query_history) |->
                       IF query_history[n].id = toggle_calls[c].id
                       THEN [query_history[n] EXCEPT !.favorite = toggle_calls[c].new_val]
                       ELSE query_history[n]]
               /\ last_applied' = <<toggle_calls[c].new_val>>
               /\ write_lock' = 0
               /\ toggle_calls' = [toggle_calls EXCEPT ![c] =
                                     [@ EXCEPT !.pc = "returned", !.ret = (toggle_calls[c].new_val = 1)]]
    /\ UNCHANGED NotOfRace

NextRace ==
    \E c \in 1..2 : ToggleSelect(c) \/ ToggleUpdate(c) \/ ToggleCommit(c)

\* both calls run on, statement by statement
SpecRace == InitRace /\ [][NextRace]_vars /\ WF_vars(NextRace)

----------------------------------------------------------------------------
(* execute_query statement by statement: connection and transaction *)

\* the statements execute_query is called with
ExecutedTexts == Pieces \cup RunnableStatements

InitExecute ==
    /\ ENABLE_SAFETY_CHECKS = TRUE
    /\ model = None
    /\ candidate \in ExecutedTexts
    /\ Constructed

NotOfExecute == <<Config, candidate, verdict, calls, SchemaState, toggle_calls,
                  write_lock, last_applied, user_query, sql_query, error, history_id,
                  last_result, shown, cycle, log, written>>

\* with self.engine.connect() as conn
Connect ==
    /\ pc = "Idle"
    /\ \E raises \in BOOLEAN :
          IF raises
          THEN /\ pc' = "Returned"
               /\ result' = NoResult
               /\ execution_error' = StoreFault
               /\ UNCHANGED conn
          ELSE /\ pc' = "Connected"
               /\ conn' = "open"
               /\ UNCHANGED <<result, execution_error>>
    /\ StoreUnchanged
    /\ UNCHANGED <<NotOfExecute, trans>>

\* the row-returning branch: pd.read_sql_query(sql_query, conn)
ReadRows ==
    /\ pc = "Connected"
    /\ first_word(candidate) \in ReadWords
    /\ \E runs \in SqlOutcomes(candidate) :
          IF runs
          THEN /\ result' = DataFrame(SqlRows(candidate))
               /\ execution_error' = None
          ELSE /\ result' = NoResult
               /\ execution_error' = SqlError(candidate)
    /\ pc' = "Closing"
    /\ StoreUnchanged
    /\ UNCHANGED <<NotOfExecute, conn, trans>>

\* trans = conn.begin()
Begin ==
    /\ pc = "Connected"
    /\ first_word(candidate) \notin ReadWords
    /\ \E raises \in BOOLEAN :
          IF raises
          THEN /\ pc' = "Closing"
               /\ result' = NoResult
               /\ execution_error' = StoreFault
               /\ UNCHANGED trans
          ELSE /\ pc' = "Begun"
               /\ trans' = "open"
               /\ UNCHANGED <<result, execution_error>>
    /\ StoreUnchanged
    /\ UNCHANGED <<NotOfExecute, conn>>

\* result = conn.execute(text(sql_query))
Execute ==
    /\ pc = "Begun"
    /\ \E runs \in SqlOutcomes(candidate) :
          IF runs
          THEN /\ pc' = "Executed"
               /\ UNCHANGED execution_error
          ELSE /\ pc' = "Handling"
               /\ execution_error' = SqlError(candidate)
    /\ StoreUnchanged
    /\ UNCHANGED <<NotOfExecute, conn, trans, result>>

\* trans.commit(), then return pd.DataFrame(), None
Commit ==
    /\ pc = "Executed"
    /\ \E raises \in BOOLEAN :
          IF raises
          THEN /\ pc' = "Handling"
               /\ execution_error' = StoreFault
               /\ StoreUnchanged
               /\ UNCHANGED <<trans, result>>
          ELSE /\ pc' = "Closing"
               /\ SqlCommit(candidate)
               /\ trans' = "committed"
               /\ result' = DataFrame(<<>>)
               /\ execution_error' = None
    /\ UNCHANGED <<NotOfExecute, conn>>

\* except Exception as e: trans.rollback(), then return None, str(e); when
\* the rollback raises, the outer handler returns None and its message
Rollback ==
    /\ pc = "Handling"
    /\ \E raises \in BOOLEAN :
          IF raises
          THEN /\ execution_error' = StoreFault
               /\ UNCHANGED trans
          ELSE /\ trans' = "rolled back"
               /\ UNCHANGED execution_error
    /\ pc' = "Closing"
    /\ result' = NoResult
    /\ StoreUnchanged
    /\ UNCHANGED <<NotOfExecute, conn>>

\* a with block whose exit leaves a transaction in progress as it is
CloseConnection_TransactionKept ==
    /\ pc = "Closing"
    /\ conn' = "closed"
    /\ pc' = "Returned"
    /\ StoreUnchanged
    /\ UNCHANGED <<NotOfExecute, trans, result, execution_error>>

\* the exit of the with block, on the way of every return and of every
\* exception: the connection is closed, which rolls back a transaction
\* that is still in progress
CloseConnection ==
    /\ pc = "Closing"
    /\ conn' = "closed"
    /\ trans' = IF trans = "open" THEN "rolled back" ELSE trans
    /\ pc' = "Returned"
    /\ StoreUnchanged
    /\ UNCHANGED <<NotOfExecute, result, execution_error>>

NextExecute ==
    \/ Connect
    \/ ReadRows
    \/ Begin
    \/ Execute
    \/ Commit
    \/ Rollback
    \/ CloseConnection

\* a call that has begun its transaction runs on, statement by statement, to
\* its return
SpecExecute ==
    /\ InitExecute
    /\ [][NextExecute]_vars
    /\ WF_vars(Execute)
    /\ WF_vars(Commit)
    /\ WF_vars(Rollback)
    /\ WF_vars(CloseConnection)

----------------------------------------------------------------------------
(* generate_sql, model branch: _extract_sql applied to decoded texts *)

\* pieces a decoded text is put together from
GeneratedPieces ==
    { SQL_QUERY_LABEL, <<"S","E","L","E","C","T"," ","a">>, <<"W","I","T","H"," ","t"," ","A","S"," ","(","S","E","L","E","C","T"," ","b",")"," ">>, <<"s","e","l","e","c","t"," ","c">>,
      <<" ","D","R","O","P"," ","T","A","B","L","E"," ","t">>, <<";">>, <<"\n">>, <<" ">> }

RECURSIVE GeneratedOf(_)
GeneratedOf(n) ==
    IF n = 0 THEN {<<>>}
    ELSE {p \o t : p \in GeneratedPieces, t \in GeneratedOf(n - 1)}

\* generated_text = self.tokenizer.decode(outputs[0], skip_special_tokens=True)
GeneratedTexts == UNION {GeneratedOf(n) : n \in 0..MaxPieces}

InitExtract ==
    /\ ENABLE_SAFETY_CHECKS \in BOOLEAN
    /\ model = "loaded"
    /\ candidate \in GeneratedTexts
    /\ Constructed

NotOfExtract == <<Config, Store, candidate, calls, SchemaState, CallState,
                  user_query, result, execution_error, history_id, last_result,
                  shown, cycle, log, written>>

\* sql_query = self._extract_sql(generated_text)
ExtractGenerated ==
    /\ pc = "Idle"
    /\ sql_query' = _extract_sql(candidate)
    /\ pc' = "Extracted"
    /\ UNCHANGED <<NotOfExtract, verdict, error>>

\* is_safe, safety_message = self._validate_sql_safety(sql_query) and the
\* two returns after it
ReturnValidated ==
    /\ pc = "Extracted"
    /\ verdict' = _validate_sql_safety(sql_query)
    /\ IF ~verdict'[1]
       THEN /\ sql_query' = NoText
            /\ error' = "Safety violation: " \o verdict'[2]
       ELSE /\ error' = None
            /\ UNCHANGED sql_query
    /\ pc' = "Returned"
    /\ UNCHANGED NotOfExtract

NextExtract == ExtractGenerated \/ ReturnValidated

SpecExtract == InitExtract /\ [][NextExtract]_vars

----------------------------------------------------------------------------
(* Properties *)

LogHas(op) == \E i \in 1..Len(log) : log[i].op = op

\* where the maximal runs of word characters of s start and end
WordStarts(s) ==
    {i \in 1..Len(s) : IsWordChar(s[i]) /\ (i = 1 \/ ~IsWordChar(s[i - 1]))}

WordEnds(s) ==
    {j \in 1..Len(s) : IsWordChar(s[j]) /\ (j = Len(s) \/ ~IsWordChar(s[j + 1]))}

\* the maximal runs of word characters of s, upper-cased
WordsOf(s) ==
    LET u == upper(s)
        ends == WordEnds(s)
    IN  {SubSeq(u, i, Min({j \in ends : j >= i})) : i \in WordStarts(s)}

\* s has one of the eight keywords as a whole word, in any letter case
HasDenylistedWord(s) == WordsOf(s) \cap Range(Keywords) # {}

\* s is a SELECT ... FROM ... statement
IsSelectFrom(s) == SqlKeyword(s) = <<"S","E","L","E","C","T">> /\ <<"F","R","O","M">> \in WordsOf(s)

\* the number of statement terminators of s
TerminatorCount(s) == Cardinality({i \in 1..Len(s) : s[i] = ";"})

\* s has a block comment, opened and closed
HasBlockComment(s) ==
    \E i \in Occurrences(s, <<"/","*">>) : \E j \in Occurrences(s, <<"*","/">>) : j >= i + 2

\* C1: with safety checks enabled, every step that hands a query to
\* execute_query hands it one that _validate_sql_safety allows, on the model
\* path and on the rule-based path alike, and a cycle whose query was rejected
\* calls execute_query never.
C1_ExecutedOnlyIfAllowed ==
    [][/\ \A i \in 1..Len(log') :
            (log'[i].op = "execute" /\ (i > Len(log) \/ log[i] # log'[i]))
            => _validate_sql_safety(log'[i].sql)[1]
       /\ (\E i \in 1..Len(log') : log'[i].op = "validate" /\ ~log'[i].ok)
            => ~\E i \in 1..Len(log') : log'[i].op = "execute"]_vars

\* C1 witness: this cycle's query was rejected and the cycle ended, after an
\* earlier cycle had its query executed
C1_Witness ==
    /\ pc = "Aborted"
    /\ \E i \in 1..Len(log) : log[i].op = "validate" /\ ~log[i].ok
    /\ last_result.sql_query # NoText

\* C2: the execute step of a cycle leaves the contents of every table of the
\* store as they were (no statement that changes stored data is executed).
C2_ExecuteLeavesStoreUnchanged ==
    [][(pc = "Translated" /\ pc' = "Executed")
         => (tables' = tables /\ employees' = employees
             /\ query_history' = query_history)]_vars

\* C3: no cycle ends, rejected or not, without a save_query_history call.
C3_EveryEndedCycleAppended ==
    pc \in {"Done", "Aborted"} => LogHas("append")

\* C4: in a cycle that called execute_query, save_query_history is called
\* after it and before process_query returns, whatever the outcome; execution
\* is always followed by the append, the append (also one that returned -1)
\* by the stored result, and the stored result is the execution outcome.
C4_AppendAfterExecuteBeforeReturn ==
    /\ \A k \in 1..Len(log) :
         (log[k].op = "return" /\ \E i \in 1..k : log[i].op = "execute")
         => \E i \in 1..k : \E j \in i..k :
                log[i].op = "execute" /\ log[j].op = "append"
    /\ \A j \in 1..Len(log) :
         log[j].op = "append" => \E i \in 1..j : log[i].op = "execute"
    /\ pc = "Executed" => ENABLED SaveQueryHistory
    /\ pc = "Logged" => ENABLED StoreResults
    /\ pc = "Done" => /\ last_result.result = result
                      /\ last_result.error = execution_error
                      /\ last_result.history_id = history_id

\* C4 witness: execution failed, the append failed too (-1), and the cycle is
\* done with the execution error as its outcome
C4_Witness ==
    /\ pc = "Done"
    /\ history_id = -1
    /\ last_result.error # None
    /\ \E i \in 1..Len(log) : \E j \in i..Len(log) :
           log[i].op = "execute" /\ log[j].op = "append" /\ ~log[j].ok

\* C5: every row of the history was written by exactly one cycle, and there
\* are no more rows than cycles.
C5_OneRecordPerCycle ==
    /\ \A i \in 1..Len(query_history) :
         Cardinality({c \in 1..cycle : <<c, query_history[i].id>> \in written}) = 1
    /\ Len(query_history) <= cycle

\* C5, the part about save_query_history alone: a call that returns an id
\* added exactly one row, with that id; a call that returns -1 added none.
C5_AppendAddsOneRowOrNone ==
    [][(pc = "Executed" /\ pc' = "Logged")
         => IF history_id' # -1
            THEN /\ query_history' = Append(query_history, query_history'[Len(query_history')])
                 /\ query_history'[Len(query_history')].id = history_id'
                 /\ history_id' \notin HistoryIds
            ELSE query_history' = query_history]_vars

\* C6: a row of the history, once there, stays, and nothing of it but its
\* favorite flag ever changes.
C6_RowsKeptUnchanged ==
    [][\A i \in 1..Len(query_history) : \E j \in 1..Len(query_history') :
          [query_history'[j] EXCEPT !.favorite = 0]
            = [query_history[i] EXCEPT !.favorite = 0]]_vars

\* C7: with safety checks enabled, a query that has one of the eight keywords
\* as a whole word, in any letter case and at any position, is rejected, and
\* the reason names the keyword pattern, the first of the list.
C7_KeywordRejectedByFirstPattern ==
    (pc # "Idle" /\ ENABLE_SAFETY_CHECKS /\ HasDenylistedWord(candidate))
      => verdict = <<FALSE, "Dangerous SQL pattern detected: " \o KeywordPattern>>

\* C7 witness: a rejected text with a lower-case keyword after a line comment
\* marker, which a later pattern of the list matches too
C7_Witness ==
    /\ pc = "TextValidated"
    /\ ENABLE_SAFETY_CHECKS
    /\ HasDenylistedWord(candidate)
    /\ Contains(candidate, <<"e","x","e","c">>)
    /\ find(candidate, <<"-","-">>) \in 1..(find(candidate, <<"e","x","e","c">>) - 1)
    /\ ~verdict[1]

\* C8 as stated: a SELECT ... FROM ... query with no denylisted keyword as a
\* whole word and no stacked statements is allowed.
C8_SelectWithoutKeywordsAllowed ==
    (pc # "Idle" /\ IsSelectFrom(candidate) /\ ~HasDenylistedWord(candidate)
       /\ TerminatorCount(candidate) < 2)
      => verdict[1]

\* C8 as amended: a SELECT ... FROM ... query with no denylisted keyword as a
\* whole word, no stacked statements, no line comment marker and no block
\* comment is allowed; a keyword inside an identifier does not matter.
C8_SelectWithoutDenylistedTextAllowed ==
    (pc # "Idle" /\ IsSelectFrom(candidate) /\ ~HasDenylistedWord(candidate)
       /\ TerminatorCount(candidate) < 2
       /\ ~Contains(candidate, <<"-","-">>) /\ ~HasBlockComment(candidate))
      => verdict[1]

\* C8 witness: the validator, enabled, allowed a SELECT whose table
\* identifier ends in _exec
C8_Witness ==
    /\ pc = "TextValidated"
    /\ ENABLE_SAFETY_CHECKS
    /\ IsSelectFrom(candidate)
    /\ Contains(candidate, <<"e","m","p","l","o","y","e","e","s","_","e","x","e","c">>)
    /\ verdict = <<TRUE, "Query is safe">>

\* C9: with safety checks enabled, a query with two or more statement
\* terminators, a line comment marker or a block comment marker is rejected,
\* wherever they are.
C9_StackedOrCommentRejected ==
    (pc # "Idle" /\ ENABLE_SAFETY_CHECKS
       /\ (TerminatorCount(candidate) >= 2 \/ Contains(candidate, <<"-","-">>)
           \/ Contains(candidate, <<"/","*">>)))
      => ~verdict[1]

\* C10: a query that begins with SELECT, WITH, PRAGMA, EXPLAIN or SHOW runs
\* without a write transaction; any other query on an open connection runs
\* inside one.
ReadKeywords == {<<"S","E","L","E","C","T">>, <<"W","I","T","H">>, <<"P","R","A","G","M","A">>, <<"E","X","P","L","A","I","N">>, <<"S","H","O","W">>}

C10_ReadKeywordNeverBeginsTransaction ==
    pc = "TextExecuted"
      => /\ SqlKeyword(candidate) \in ReadKeywords => ~LogHas("begin")
         /\ (SqlKeyword(candidate) \notin ReadKeywords /\ execution_error # StoreFault)
              => LogHas("begin")

C12_ExactlyOneOutcome ==
    /\ pc = "TextValidated" => ENABLED ExecuteText
    /\ pc = "TextExecuted"
         => /\ \/ result.kind = "DataFrame" /\ execution_error = None
               \/ result = NoResult /\ execution_error \notin {None, ""}
            /\ LogHas("rollback") => execution_error # None
            /\ (execution_error = None /\ LogHas("begin"))
                 => /\ result = DataFrame(<<>>)
                    /\ LogHas("commit")
            /\ (execution_error = None /\ ~LogHas("begin"))
                 => first_word(candidate) \in ReadWords

\* C12 witness: a row-returning statement failed and came back as an error
\* with no result
C12_Witness ==
    /\ pc = "TextExecuted"
    /\ first_word(candidate) \in ReadWords
    /\ ~LogHas("begin")
    /\ result = NoResult
    /\ execution_error = "syntax error"

\* the request has the word, in any letter case
Mentions(request, word) == Contains(upper(request), upper(word))

\* C13: a request with "count" and "department" in it, in any letter case and
\* with any other keywords, is translated by the rule-based translator to
\* the COUNT query grouped by department, with no error: the same query
\* whether the model is loaded or not and whatever was translated before.
C13_CountByDepartment ==
    (pc = "Translated" /\ Mentions(user_query, <<"c","o","u","n","t">>)
       /\ Mentions(user_query, <<"d","e","p","a","r","t","m","e","n","t">>))
      => /\ sql_query = <<"S","E","L","E","C","T"," ","d","e","p","a","r","t","m","e","n","t",","," ","C","O","U","N","T","(","*",")"," ","a","s"," ","e","m","p","l","o","y","e","e","_","c","o","u","n","t"," ","F","R","O","M"," ","e","m","p","l","o","y","e","e","s"," ","G","R","O","U","P"," ","B","Y"," ","d","e","p","a","r","t","m","e","n","t",";">>
         /\ error = None

\* C13 witness: with the model loaded and after an earlier translation, a
\* request with count, department and highest in it was translated
C13_Witness ==
    /\ pc = "Translated"
    /\ model = "loaded"
    /\ cycle = 2
    /\ user_query = <<"T","o","p"," ","5"," ","h","i","g","h","e","s","t"," ","p","a","i","d"," ","e","m","p","l","o","y","e","e","s">> \o <<"D","E","P","A","R","T","M","E","N","T">> \o <<"C","o","u","n","t">>
    /\ Contains(sql_query, <<"C","O","U","N","T","(","*",")">>)

\* the rules of the translator in their order, for the lower-cased request t:
\* when a rule applies and the template it gives
DepartmentNames == <<<<"i","t">>, <<"m","a","r","k","e","t","i","n","g">>, <<"s","a","l","e","s">>, <<"f","i","n","a","n","c","e">>, <<"h","r">>>>

FirstDepartmentIn(t) ==
    LET found == {n \in 1..Len(DepartmentNames) : Contains(t, DepartmentNames[n])}
    IN  IF found = {} THEN 0 ELSE Min(found)

TitleCased == <<<<"I","t">>, <<"M","a","r","k","e","t","i","n","g">>, <<"S","a","l","e","s">>, <<"F","i","n","a","n","c","e">>, <<"H","r">>>>

TemplateRules(t) ==
    << [when |-> Contains(t, <<"c","o","u","n","t">>) /\ Contains(t, <<"d","e","p","a","r","t","m","e","n","t">>),
        then |-> <<"S","E","L","E","C","T"," ","d","e","p","a","r","t","m","e","n","t",","," ","C","O","U","N","T","(","*",")"," ","a","s"," ","e","m","p","l","o","y","e","e","_","c","o","u","n","t"," ","F","R","O","M"," ","e","m","p","l","o","y","e","e","s"," ","G","R","O","U","P"," ","B","Y"," ","d","e","p","a","r","t","m","e","n","t",";">>],
       [when |-> Contains(t, <<"a","v","e","r","a","g","e">>) /\ Contains(t, <<"s","a","l","a","r","y">>),
        then |-> IF Contains(t, <<"d","e","p","a","r","t","m","e","n","t">>)
                 THEN <<"S","E","L","E","C","T"," ","d","e","p","a","r","t","m","e","n","t",","," ","A","V","G","(","s","a","l","a","r","y",")"," ","a","s"," ","a","v","g","_","s","a","l","a","r","y"," ","F","R","O","M"," ","e","m","p","l","o","y","e","e","s"," ","G","R","O","U","P"," ","B","Y"," ","d","e","p","a","r","t","m","e","n","t",";">>
                 ELSE <<"S","E","L","E","C","T"," ","A","V","G","(","s","a","l","a","r","y",")"," ","a","s"," ","a","v","e","r","a","g","e","_","s","a","l","a","r","y"," ","F","R","O","M"," ","e","m","p","l","o","y","e","e","s",";">>],
       [when |-> Contains(t, <<"h","i","g","h","e","s","t">>) \/ Contains(t, <<"t","o","p">>),
        then |-> <<"S","E","L","E","C","T"," ","*"," ","F","R","O","M"," ","e","m","p","l","o","y","e","e","s"," ","O","R","D","E","R"," ","B","Y"," ","s","a","l","a","r","y"," ","D","E","S","C"," ","L","I","M","I","T"," ","5",";">>],
       [when |-> Contains(t, <<"l","o","w","e","s","t">>),
        then |-> <<"S","E","L","E","C","T"," ","*"," ","F","R","O","M"," ","e","m","p","l","o","y","e","e","s"," ","O","R","D","E","R"," ","B","Y"," ","s","a","l","a","r","y"," ","A","S","C"," ","L","I","M","I","T"," ","5",";">>],
       [when |-> Contains(t, <<"d","e","p","a","r","t","m","e","n","t">>),
        then |-> IF FirstDepartmentIn(t) = 0
                 THEN <<"S","E","L","E","C","T"," ","D","I","S","T","I","N","C","T"," ","d","e","p","a","r","t","m","e","n","t"," ","F","R","O","M"," ","e","m","p","l","o","y","e","e","s",";">>
                 ELSE <<"S","E","L","E","C","T"," ","*"," ","F","R","O","M"," ","e","m","p","l","o","y","e","e","s"," ","W","H","E","R","E"," ","d","e","p","a","r","t","m","e","n","t"," ","="," ","'">>
                      \o TitleCased[IF FirstDepartmentIn(t) = 0 THEN 1 ELSE FirstDepartmentIn(t)]
                      \o <<"'",";">>],
       [when |-> Contains(t, <<"c","i","t","y">>) \/ Contains(t, <<"l","o","c","a","t","i","o","n">>),
        then |-> <<"S","E","L","E","C","T"," ","D","I","S","T","I","N","C","T"," ","r","e","s","i","d","e","n","c","e","_","c","i","t","y"," ","F","R","O","M"," ","e","m","p","l","o","y","e","e","s"," ","L","I","M","I","T"," ","1","0",";">>],
       [when |-> TRUE,
        then |-> <<"S","E","L","E","C","T"," ","*"," ","F","R","O","M"," ","e","m","p","l","o","y","e","e","s"," ","L","I","M","I","T"," ","1","0",";">>] >>

\* C14: the rule-based translator returns the template of the first rule, in
\* the fixed order of the seven, that the lower-cased request matches; the
\* two requests of the examples get the grouped AVG query and the DESC
\* LIMIT 5 query.
C14_FirstMatchingRule ==
    pc = "Translated"
      => LET t == lower(user_query)
             rules == TemplateRules(t)
             first == Min({n \in 1..Len(rules) : rules[n].when})
         IN  /\ sql_query = rules[first].then
             /\ error = None
             /\ user_query = <<"S","h","o","w"," ","m","e"," ","t","h","e"," ","a","v","e","r","a","g","e"," ","s","a","l","a","r","y"," ","b","y"," ","d","e","p","a","r","t","m","e","n","t">>
                  => sql_query = <<"S","E","L","E","C","T"," ","d","e","p","a","r","t","m","e","n","t",","," ","A","V","G","(","s","a","l","a","r","y",")"," ","a","s"," ","a","v","g","_","s","a","l","a","r","y"," ","F","R","O","M"," ","e","m","p","l","o","y","e","e","s"," ","G","R","O","U","P"," ","B","Y"," ","d","e","p","a","r","t","m","e","n","t",";">>
             /\ user_query = <<"T","o","p"," ","5"," ","h","i","g","h","e","s","t"," ","p","a","i","d"," ","e","m","p","l","o","y","e","e","s">>
                  => sql_query = <<"S","E","L","E","C","T"," ","*"," ","F","R","O","M"," ","e","m","p","l","o","y","e","e","s"," ","O","R","D","E","R"," ","B","Y"," ","s","a","l","a","r","y"," ","D","E","S","C"," ","L","I","M","I","T"," ","5",";">>

\* C14 witness: a request with a department and two names of the vocabulary
\* in it, the later of the vocabulary first, was translated to the filter on
\* the name that is first in the vocabulary
C14_Witness ==
    /\ pc = "Translated"
    /\ user_query = <<"h","r">> \o <<"s","a","l","e","s">> \o <<"D","E","P","A","R","T","M","E","N","T">>
    /\ sql_query = <<"S","E","L","E","C","T"," ","*"," ","F","R","O","M"," ","e","m","p","l","o","y","e","e","s"," ","W","H","E","R","E"," ","d","e","p","a","r","t","m","e","n","t"," ","="," ","'","S","a","l","e","s","'",";">>

\* the errors generate_sql has for a safety violation
SafetyViolations ==
    { "Safety violation: " \o "Dangerous SQL pattern detected: " \o dangerous_patterns[n] :
        n \in 1..Len(dangerous_patterns) }

\* C15: generate_sql always has the rule-based return to fall back on; with
\* the model unavailable, or with a model path that raised (no query got as
\* far as being returned or rejected), it returns the rule-based translation
\* of the same request and no error; the only error it returns is a safety
\* violation, and then no query.
C15_TranslationFailureFallsBack ==
    /\ pc = "Received" => ENABLED TranslateRuleBased
    /\ pc = "Translated"
         => /\ (model = None \/ ~LogHas("validate"))
                 => /\ sql_query = _rule_based_sql(user_query)
                    /\ error = None
            /\ error # None
                 => /\ error \in SafetyViolations
                    /\ sql_query = NoText
                    /\ \E i \in 1..Len(log) : log[i].op = "validate" /\ ~log[i].ok
            /\ error = None => sql_query # NoText

\* C15 witness: the model is loaded, its path raised, and generate_sql
\* returned the rule-based translation with no error
C15_Witness ==
    /\ pc = "Translated"
    /\ model = "loaded"
    /\ ~LogHas("validate")
    /\ sql_query = _rule_based_sql(user_query)
    /\ error = None


----------------------------------------------------------------------------
(* The history store: save_query_history, get_query_history, toggle_favorite *)

CallsOf(op) == {i \in 1..Len(calls) : calls[i].op = op}

IdsOf(rows) == {rows[k].id : k \in 1..Len(rows)}

RowOf(rows, id) == rows[CHOOSE k \in 1..Len(rows) : rows[k].id = id]

\* the error text a row holds for the error an append was given
StoredError(err) == IF err = None THEN "" ELSE err

\* C16: when save_query_history has returned the id of a stored row and
\* get_query_history is called next with a limit of at least 1 and reads the
\* table, it returns a row that carries the returned id and holds the request
\* text, the query text and the error text that were appended, an absent error
\* as the empty string.
C16_AppendThenRecentReturnsRecord ==
    \A i \in CallsOf("append") :
        (/\ calls[i].ret # -1
         /\ i + 1 \in CallsOf("recent")
         /\ calls[i + 1].arg >= 1
         /\ ~calls[i + 1].failed)
        => \E k \in 1..Len(calls[i + 1].ret) :
              LET row == calls[i + 1].ret[k]
              IN  /\ row.id = calls[i].ret
                  /\ row.user_query = calls[i].arg.user_query
                  /\ row.sql_query = calls[i].arg.sql_query
                  /\ row.error = StoredError(calls[i].arg.error)

\* an append without error onto two stored rows, then the newest row read back
C16_Witness ==
    /\ Len(calls) >= 2
    /\ calls[1].op = "append" /\ calls[1].ret = 3 /\ calls[1].arg.error = None
    /\ calls[2].op = "recent" /\ calls[2].arg = 1 /\ ~calls[2].failed
    /\ Len(calls[2].ret) = 1 /\ calls[2].ret[1].id = 3
    /\ calls[2].ret[1].error = ""

\* C17: when toggle_favorite is called twice in a row on the id of a stored
\* row and both calls reach their commit, the second call leaves the history
\* as it was before the first, each call returns the flag it has just written,
\* which is the opposite of the flag it found, and neither call changes
\* another row or the number of rows.
C17_ToggleTwiceRestores ==
    \A i \in CallsOf("toggle") :
        (/\ i + 1 \in CallsOf("toggle")
         /\ calls[i + 1].arg = calls[i].arg
         /\ calls[i].arg \in IdsOf(calls[i].before)
         /\ ~calls[i].failed /\ ~calls[i + 1].failed)
        => /\ calls[i + 1].after = calls[i].before
           /\ \A j \in {i, i + 1} :
                 /\ calls[j].ret = (RowOf(calls[j].after, calls[j].arg).favorite = 1)
                 /\ calls[j].ret # (RowOf(calls[j].before, calls[j].arg).favorite = 1)
                 /\ Len(calls[j].after) = Len(calls[j].before)
                 /\ \A k \in 1..Len(calls[j].before) :
                       calls[j].before[k].id # calls[j].arg
                       => calls[j].after[k] = calls[j].before[k]

\* the favorite row of a two-row history unmarked and marked again
C17_Witness ==
    /\ Len(calls) >= 2
    /\ calls[1].op = "toggle" /\ calls[1].arg = 2 /\ calls[1].ret = FALSE
    /\ calls[2].op = "toggle" /\ calls[2].arg = 2 /\ calls[2].ret = TRUE
    /\ Len(calls[1].before) = 2
    /\ RowOf(calls[1].before, 2).favorite = 1
    /\ RowOf(calls[1].after, 2).favorite = 0
    /\ calls[2].after = calls[1].before

\* C18: a toggle_favorite call on an id that no row has, or one whose two
\* attempts both raise, returns False and leaves the history as it was; and
\* the call has a return value from every state, whatever the id.
C18_ToggleMissingOrFailedChangesNothing ==
    /\ \A i \in CallsOf("toggle") :
          (calls[i].arg \notin IdsOf(calls[i].before) \/ calls[i].failed)
          => /\ calls[i].ret = FALSE
             /\ calls[i].after = calls[i].before
    /\ Len(calls) < MaxCalls => ENABLED ToggleCall

\* a failed toggle of the favorite row and a toggle of an id no row has
C18_Witness ==
    /\ Len(calls) >= 2
    /\ calls[1].op = "toggle" /\ calls[1].arg = 2 /\ calls[1].failed
    /\ RowOf(calls[1].before, 2).favorite = 1
    /\ calls[1].ret = FALSE
    /\ calls[2].op = "toggle" /\ calls[2].arg = 3 /\ ~calls[2].failed
    /\ calls[2].arg \notin IdsOf(calls[2].before)
    /\ calls[2].ret = FALSE
    /\ calls[2].after = StoredHistory

\* C19: save_query_history returns -1 whenever it has stored no row, and when
\* it returns another value that value is a positive id and the history has
\* grown by exactly one row with that id; get_query_history returns the empty
\* list when its reads raise, and leaves the history as it was; both calls
\* have a return value from every state.
C19_HistoryFailuresDegrade ==
    /\ \A i \in CallsOf("append") :
          /\ calls[i].after = calls[i].before => calls[i].ret = -1
          /\ calls[i].ret # -1
             => /\ calls[i].ret > 0
                /\ Len(calls[i].after) = Len(calls[i].before) + 1
                /\ SubSeq(calls[i].after, 1, Len(calls[i].before)) = calls[i].before
                /\ calls[i].after[Len(calls[i].after)].id = calls[i].ret
                /\ calls[i].ret \notin IdsOf(calls[i].before)
    /\ \A i \in CallsOf("recent") :
          calls[i].failed => calls[i].ret = <<>> /\ calls[i].after = calls[i].before
    /\ Len(calls) < MaxCalls => ENABLED AppendCall /\ ENABLED RecentCall

\* on a history of two rows, an append that stored nothing and a read that
\* raised
C19_Witness ==
    /\ Len(calls) >= 2
    /\ calls[1].op = "append" /\ calls[1].ret = -1
    /\ calls[1].after = StoredHistory
    /\ calls[2].op = "recent" /\ calls[2].failed /\ calls[2].ret = <<>>
    /\ query_history = StoredHistory

\* C20: a get_query_history call that reads the table returns min(limit,
\* number of rows) rows of the history, in strictly decreasing order of id,
\* and every row it leaves out has a smaller id than every row it returns;
\* the id save_query_history gives a stored row is larger than every id in
\* the history before it, so of two rows appended one after the other the
\* later one stands before the earlier one in every list that holds both.
C20_RecentIsNewestFirstUpToLimit ==
    /\ \A i \in CallsOf("recent") :
          ~calls[i].failed
          => LET rows == calls[i].ret
                 stored == calls[i].before
             IN  /\ Len(rows) <= calls[i].arg
                 /\ Len(rows) = Min({calls[i].arg, Len(stored)})
                 /\ \A k \in 1..Len(rows) : \E n \in 1..Len(stored) : rows[k] = stored[n]
                 /\ \A k \in 1..(Len(rows) - 1) : rows[k].id > rows[k + 1].id
                 /\ \A id \in IdsOf(stored) \ IdsOf(rows) :
                       \A k \in 1..Len(rows) : id < rows[k].id
    /\ \A i \in CallsOf("append") :
          calls[i].ret # -1 => \A id \in IdsOf(calls[i].before) : calls[i].ret > id
    /\ \A i \in CallsOf("append") : \A j \in CallsOf("append") : \A r \in CallsOf("recent") :
          (i < j /\ j < r /\ calls[i].ret # -1 /\ calls[j].ret # -1)
          => \A k \in 1..Len(calls[r].ret) : \A n \in 1..Len(calls[r].ret) :
                (calls[r].ret[k].id = calls[j].ret /\ calls[r].ret[n].id = calls[i].ret)
                => k < n

\* a read with limit 2 of a history of three rows, the third appended by the
\* call before: the two newest rows, the newest first
C20_Witness ==
    /\ Len(calls) >= 2
    /\ calls[1].op = "append" /\ calls[1].ret = 3
    /\ calls[2].op = "recent" /\ calls[2].arg = 2 /\ ~calls[2].failed
    /\ Len(calls[2].before) = 3
    /\ Len(calls[2].ret) = 2
    /\ calls[2].ret[1].id = 3 /\ calls[2].ret[2].id = 2

----------------------------------------------------------------------------
(* The schema manager *)

\* what a reader gets from a schema manager whose last refresh built b
CompleteObservation(b) ==
    [tables |-> b.tables, context |-> schema_context(b.schema),
     keys |-> DOMAIN b.schema]

\* C21: what a reader of the schema manager gets, while a refresh runs or
\* after one, is what a refresh that returned has built, whole: the table
\* list, the tables of the schema and the context of one and the same build,
\* never an empty or a half-built schema.
C21_ReaderSeesCompleteContext ==
    observed.read
    => \E n \in 1..Len(published) :
          [tables |-> observed.tables, context |-> observed.context,
           keys |-> observed.keys] = CompleteObservation(published[n])

\* C22: of two _refresh_schema calls that returned one after the other, with
\* the store the same from the beginning of the first to the end of the second
\* and the same sample reads answered, the second builds what the first built:
\* the same table list and, for every table, the same columns and the same
\* sample rows.
C22_RefreshTwiceBuildsEqualContext ==
    \A n \in 1..(Len(published) - 1) :
        LET first == published[n]
            second == published[n + 1]
        IN  (/\ first.began = first.ended
             /\ first.ended = second.began
             /\ second.began = second.ended
             /\ first.failed = second.failed)
            => /\ second.tables = first.tables
               /\ second.schema = first.schema
               /\ schema_context(second.schema) = schema_context(first.schema)

\* construction and a press of the button on a store of four employees and
\* two history rows, every sample read answered
C22_Witness ==
    /\ Len(published) >= 2
    /\ published[1].began = <<FirstEmployees, StoredHistory>>
    /\ published[2].ended = <<FirstEmployees, StoredHistory>>
    /\ published[1].failed = {} /\ published[2].failed = {}
    /\ Len(published[2].schema["employees"].sample_data) = 3
    /\ Len(published[2].schema["query_history"].sample_data) = 2
    /\ published[2].schema = published[1].schema

\* the rows _get_sample_data reads from a table of the store as it was when
\* the refresh ended
SampleOf(b, table) ==
    LET rows == IF table = "employees" THEN b.ended[1] ELSE b.ended[2]
    IN  IF Len(rows) <= SampleLimit THEN rows ELSE SubSeq(rows, 1, SampleLimit)

\* C23: every refresh that returned has built an entry for every table of
\* its list; a table whose sample read raised has its columns and an empty
\* sample list, and every other table has its columns and, the store being the
\* same throughout, its first rows.  A refresh ends without returning only by
\* a catalog read that raised; that leaves the application halted, with no
\* context built, and it stays halted.
C23_SampleFailureSwallowedCatalogFailureFatal ==
    /\ [](\A n \in 1..Len(published) :
             LET b == published[n]
             IN  /\ DOMAIN b.schema = Range(b.tables)
                 /\ \A t \in DOMAIN b.schema :
                       /\ b.schema[t].columns = get_columns(t)
                       /\ t \in b.failed => b.schema[t].sample_data = <<>>
                       /\ (t \notin b.failed /\ b.began = b.ended)
                          => b.schema[t].sample_data = SampleOf(b, t))
    /\ [](schema_manager = "halted" => published = <<>> /\ refreshing.at = 0)
    /\ [][(refreshing.at # 0 /\ refreshing'.at = 0 /\ published' = published)
            => schema_manager' = "halted"]_vars
    /\ [][schema_manager = "halted" => schema_manager' = "halted"]_vars

\* a refresh during which the sample read of employees raised and that of
\* the history did not
C23_Witness ==
    /\ Len(published) >= 1
    /\ published[1].failed = {"employees"}
    /\ published[1].schema["employees"].sample_data = <<>>
    /\ published[1].schema["employees"].columns = get_columns("employees")
    /\ Len(published[1].schema["query_history"].sample_data) = 2
    /\ schema_manager = "ready"

\* a lookup schema[table] of a table that get_available_tables() lists raises
LookupFails == \E t \in Range(available_tables) : t \notin DOMAIN schema

\* C29: while no refresh runs on a schema manager whose refresh returned, the
\* tables get_available_tables() lists are the keys of the schema, and every
\* entry has the columns of its table and at most 3 sample rows; a lookup
\* of a listed table fails only while a refresh runs or after a refresh that
\* raised.
C29_ListedTablesHaveEntries ==
    /\ (schema_manager = "ready" /\ refreshing.at = 0)
       => /\ Range(get_available_tables) = DOMAIN schema
          /\ ~LookupFails
          /\ \A t \in DOMAIN schema :
                /\ DOMAIN schema[t] = {"columns", "sample_data"}
                /\ schema[t].columns = get_columns(t)
                /\ Len(schema[t].sample_data) <= 3
    /\ LookupFails => (refreshing.at # 0 \/ schema_manager = "halted")

\* after a press of the button: both tables listed and in the schema, three
\* of the four employees sampled, and a reader that has read them
C29_Witness ==
    /\ schema_manager = "ready" /\ refreshing.at = 0
    /\ refreshes >= 1
    /\ Len(employees) = 4
    /\ get_available_tables = <<"employees", "query_history">>
    /\ DOMAIN schema = {"employees", "query_history"}
    /\ Len(schema["employees"].sample_data) = 3
    /\ observed.read /\ ~observed.during /\ observed.keys = DOMAIN schema

----------------------------------------------------------------------------
(* execute_query: the transaction *)

\* C25: a transaction that execute_query has begun is committed or rolled
\* back before the call returns: a call that has returned has left no
\* transaction in progress, also when the commit or the rollback raised, and
\* every transaction in progress comes to its commit or rollback and the call
\* to its return.
C25_TransactionEndsBeforeReturn ==
    /\ [](pc = "Returned" => trans \in {"none", "committed", "rolled back"})
    /\ [](trans = "committed" => execution_error = None)
    /\ (trans = "open") ~> (trans \in {"committed", "rolled back"})
    /\ (trans = "open") ~> (pc = "Returned")

\* a REPLACE whose transaction was begun and did not come to its commit:
\* the call has returned with the transaction rolled back, the connection
\* closed, the fault of the store as its error and no row written
C25_Witness ==
    /\ pc = "Returned"
    /\ SqlKeyword(candidate) = <<"R","E","P","L","A","C","E">>
    /\ trans = "rolled back"
    /\ conn = "closed"
    /\ execution_error = StoreFault
    /\ employees = SeedEmployees

----------------------------------------------------------------------------
(* Two toggle_favorite calls on one row *)

BothReturned == \A c \in 1..2 : toggle_calls[c].pc = "returned"

\* the flag of the row both calls toggle, now and before the calls
RacedFlag == RowOf(query_history, toggle_calls[1].id).favorite
FlagBefore == RowOf(StoredHistory, toggle_calls[1].id).favorite

\* C24: two toggle_favorite calls on the same stored row, their SELECT,
\* UPDATE and commit steps interleaved in any order, both come to their
\* return; the flag is 0 or 1 throughout and is the value of the UPDATE that
\* was committed last, or the flag from before when none was committed; and
\* the history differs from what it was in the flag of that row at most.
C24_ConcurrentTogglesLastWriteWins ==
    /\ <>[]BothReturned
    /\ [](RacedFlag \in {0, 1})
    /\ [](RacedFlag = IF last_applied = <<>> THEN FlagBefore ELSE last_applied[1])
    /\ [](query_history =
            [n \in 1..Len(StoredHistory) |->
               IF StoredHistory[n].id = toggle_calls[1].id
               THEN [StoredHistory[n] EXCEPT !.favorite = RacedFlag]
               ELSE StoredHistory[n]])
    /\ [](\A c \in 1..2 : toggle_calls[c].ret \in BOOLEAN)

\* both calls read the unmarked row before either wrote, and both committed
\* in their first block: both return True and the row is marked
C24_Witness ==
    /\ BothReturned
    /\ toggle_calls[1].id = 1
    /\ \A c \in 1..2 : toggle_calls[c].attempt = 1 /\ toggle_calls[c].ret = TRUE
    /\ FlagBefore = 0
    /\ RacedFlag = 1
    /\ last_applied = <<1>>

----------------------------------------------------------------------------
(* The rule-based translator and the validator *)

\* the queries of the seven rules: the fixed templates and the department
\* filter for each name of the vocabulary
RuleBasedQueries ==
    { TemplateRules(t)[n].then :
        n \in 1..7, t \in {<<>>, <<"d","e","p","a","r","t","m","e","n","t">>} \cup Range(departments) }

\* the queries among them that a pattern of the validator matches or that
\* execute_query would run in its transaction branch
RejectedRuleBasedQueries ==
    { q \in RuleBasedQueries :
        MatchingPatterns(q) # {} \/ first_word(q) \notin ReadWords }

\* C27: the query the rule-based translator returns for a request is one of
\* the queries of its seven rules, returned without an error; each of these,
\* the department filter for every name of the vocabulary included, is
\* matched by no pattern of the validator, which therefore accepts it, and
\* has a first word that execute_query runs in its row-returning branch,
\* without conn.begin().
C27_RuleBasedQueriesSafeAndReadOnly ==
    /\ pc = "Translated" => error = None /\ sql_query \in RuleBasedQueries
    /\ Cardinality(RuleBasedQueries) = 8 + Len(departments)
    /\ RejectedRuleBasedQueries = {}

\* a request that names a department, translated with the model loaded
C27_Witness ==
    /\ pc = "Translated"
    /\ model = "loaded"
    /\ Contains(user_query, <<"D","E","P","A","R","T","M","E","N","T">>) /\ Contains(user_query, <<"s","a","l","e","s">>)
    /\ sql_query = <<"S","E","L","E","C","T"," ","*"," ","F","R","O","M"," ","e","m","p","l","o","y","e","e","s"," ","W","H","E","R","E"," ","d","e","p","a","r","t","m","e","n","t"," ","="," ","'","S","a","l","e","s","'",";">>
    /\ ENABLE_SAFETY_CHECKS
    /\ first_word(sql_query) = <<"s","e","l","e","c","t">>

----------------------------------------------------------------------------
(* Extraction of the query from the decoded text *)

\* the markers of the list that occur in the text
MarkersIn(text) == {n \in 1..Len(sql_markers) : Contains(text, sql_markers[n])}

\* where the query starts for marker n found at position i: behind the label,
\* at the keyword
StartFor(n, i) == IF sql_markers[n] = SQL_QUERY_LABEL THEN i + Len(SQL_QUERY_LABEL) ELSE i

\* the start for the marker that occurs first in the text
EarliestStart(text) ==
    LET n == CHOOSE m \in MarkersIn(text) :
                 \A k \in MarkersIn(text) : find(text, sql_markers[m]) <= find(text, sql_markers[k])
    IN  StartFor(n, find(text, sql_markers[n]))

\* the start for the first marker of the list that occurs, the label taken
\* at its last occurrence
ListedStart(text) ==
    LET n == Min(MarkersIn(text))
    IN  StartFor(n, IF sql_markers[n] = SQL_QUERY_LABEL
                    THEN rfind(text, sql_markers[n])
                    ELSE find(text, sql_markers[n]))

\* the text from a start, without the whitespace around it, cut at the first
\* terminator or newline, with a terminator appended if absent
CutAndTerminated(text, start) ==
    LET cut == strip(BeforeTerminator(strip(From(text, start))))
    IN  IF endswith(cut, <<";">>) THEN cut ELSE cut \o <<";">>

\* C26 (as stated): the extracted query starts at the first occurrence in the
\* text of a recognized marker, is cut at the first terminator or newline
\* after it and ends with a terminator; without a marker it is the catch-all
\* query.
C26_StartsAtFirstMarkerInText ==
    pc = "Extracted"
    => sql_query = IF MarkersIn(candidate) = {}
                   THEN <<"S","E","L","E","C","T"," ","*"," ","F","R","O","M"," ","e","m","p","l","o","y","e","e","s"," ","L","I","M","I","T"," ","1","0",";">>
                   ELSE CutAndTerminated(candidate, EarliestStart(candidate))

\* C26 (amended): the extracted query starts behind the last occurrence of
\* the query label if the text has the label, else at the first SELECT if
\* it has one, else at the first WITH; it is cut at the first terminator or
\* newline after that start and ends with a terminator; without a marker it
\* is the catch-all query.
C26_StartsAtFirstListedMarker ==
    pc = "Extracted"
    => sql_query = IF MarkersIn(candidate) = {}
                   THEN <<"S","E","L","E","C","T"," ","*"," ","F","R","O","M"," ","e","m","p","l","o","y","e","e","s"," ","L","I","M","I","T"," ","1","0",";">>
                   ELSE CutAndTerminated(candidate, ListedStart(candidate))

\* a text with a SELECT in front of the label: the query is what follows the
\* label
C26_Witness ==
    /\ pc = "Extracted"
    /\ candidate = <<"S","E","L","E","C","T"," ","a">> \o SQL_QUERY_LABEL \o <<"s","e","l","e","c","t"," ","c">>
    /\ EarliestStart(candidate) = 1
    /\ sql_query = <<"s","e","l","e","c","t"," ","c",";">>

\* C28: the query _extract_sql returns has no newline and one terminator,
\* its last character; the validator never answers with the stacked
\* statement pattern, and its verdict is the one for the extracted query,
\* whatever the text holds after the first terminator.
C28_ExtractedIsOneTerminatedLine ==
    /\ pc = "Extracted"
       => /\ \A i \in 1..Len(sql_query) : sql_query[i] # "\n"
          /\ {i \in 1..Len(sql_query) : sql_query[i] = ";"} = {Len(sql_query)}
    /\ pc = "Returned"
       => /\ verdict[2] # "Dangerous SQL pattern detected: " \o StackedPattern
          /\ 2 \notin MatchingPatterns(_extract_sql(candidate))
          /\ verdict[1] = (~ENABLE_SAFETY_CHECKS \/ MatchingPatterns(_extract_sql(candidate)) = {})
          /\ verdict[1] => sql_query = _extract_sql(candidate) /\ error = None

\* a text with a second statement behind the terminator: the first is
\* returned as safe, the DROP is not looked at
C28_Witness ==
    /\ pc = "Returned"
    /\ ENABLE_SAFETY_CHECKS
    /\ candidate = <<"S","E","L","E","C","T"," ","a",";"," ","D","R","O","P"," ","T","A","B","L","E"," ","t">>
    /\ 1 \in MatchingPatterns(candidate)
    /\ sql_query = <<"S","E","L","E","C","T"," ","a",";">>
    /\ verdict = <<TRUE, "Query is safe">>
    /\ error = None
=============================================================================
